---- MODULE Spec2Model ----
(***************************************************************************)
(* Playlist store (src/src/state.js) and playback engine (src/src/main.js)  *)
(* of the audio previewer, modelled as a state machine.  Indices are the   *)
(* 0-based indices of the JavaScript code; a JavaScript array is a TLA+    *)
(* sequence, so element i is seq[i + 1].  The audio element, the object    *)
(* URL registry and the clock are the browser's.  The decoding, analysis   *)
(* and probing jobs are promises and events in flight; what they write     *)
(* (the decoded buffer, the realtime key, the in-flight sets) is read by   *)
(* no function of playback, so the specifications of playback leave these  *)
(* variables as they are and the specifications of the jobs add them to    *)
(* the handlers.  The position a handler reads from the element is an      *)
(* input of the handler, except in the specifications of timed playback,   *)
(* where the clock moves the position and the element queues its ended     *)
(* event.                                                                  *)
(***************************************************************************)
EXTENDS Integers, Sequences, FiniteSets, Bags, TLC

VARIABLES
    items,          \* state.js: let items = []          (array of ListItem)
    currentIndex,   \* state.js: let currentIndex = null
    startedAt,      \* state.js: let startedAt = null    (ms, Date.now())
    currentTime,    \* state.js: let currentTime = 0      (seconds)
    isPaused,       \* state.js: let isPaused = false
    idCount,        \* number of ids crypto.randomUUID() has handed out
    now,            \* the wall clock Date.now() reads (ms)
    nUpdate,        \* calls of onUpdate made by the last handler
    nTimeUpdate,    \* calls of onTimeUpdate made by the last handler
    last,           \* the last call of the store a client made: name, arguments
    currentPlayUrl,           \* main.js: let currentPlayUrl = null
    realtimeKeyTimerId,       \* main.js: let realtimeKeyTimerId = null (TRUE: set)
    currentTrackLoopElapsed,  \* main.js: let currentTrackLoopElapsed = 0
    currentObjectUrl,         \* audio.js: let currentObjectUrl = null
    audio,                    \* audio.js: const audio = new Audio()
    objectUrls,               \* the object URLs created and not revoked
    canplayListeners,         \* the once-listeners of the audio element's canplay
    snapshot,                 \* an array a caller of getItems() holds
    currentPlayBuffer,        \* main.js: let currentPlayBuffer = null (a buffer is
                              \* named by the id of the item whose file it decodes)
    decodeJobs,               \* the decodeToBuffer promises of main.js in flight
    analysisJobs,             \* the Promise.all of runRealtimeAnalysisOnce in flight
    realTimeKey,              \* state.js: the realtime key and chord
    canplayDecodes,           \* the item and index each canplay listener keeps
    loadingDurationIds,       \* list.js: const loadingDurationIds = new Set()
    durationJobs,             \* the Audio probes of loadDuration in flight (bag of ids)
    failedDurationIds,        \* the ids of the items a probe of which has failed
    analyzingBpmIds,          \* audioAnalysis.js: const analyzingBpmIds = new Set()
    bpmJobs,                  \* the promise chains of loadBpm in flight (bag of ids)
    audioCurrentTime,         \* audio.currentTime while the clock runs the element (ms)
    endedPending              \* the ended event of the element in the task queue

storeVars == <<items, currentIndex, startedAt, currentTime, isPaused, idCount,
               nUpdate, nTimeUpdate>>

engineVars == <<currentPlayUrl, realtimeKeyTimerId, currentTrackLoopElapsed,
                currentObjectUrl, audio, objectUrls, canplayListeners>>

analysisVars == <<currentPlayBuffer, decodeJobs, analysisJobs, realTimeKey,
                  canplayDecodes>>

probeVars == <<loadingDurationIds, durationJobs, failedDurationIds, analyzingBpmIds,
               bpmJobs>>

elementVars == <<audioCurrentTime, endedPending>>

jobVars == <<analysisVars, probeVars, elementVars>>

vars == <<storeVars, now, last, engineVars, snapshot, jobVars>>

----------------------------------------------------------------------------
(* Values *)

\* JavaScript null, for the number-or-null fields (an integer no index, time or
\* duration of the model takes)
Null == -1000000

\* Number(null) is 0: what a relational operator makes of a null operand
ToNumber(v) == IF v = Null THEN 0 ELSE v

Max(a, b) == IF a >= b THEN a ELSE b

\* (Date.now() - startedAt) / 1000
MsPerSecond == 1000

\* the clock is observed in steps of the 500 ms tick period
TickMs == 500

----------------------------------------------------------------------------
(* Bounds *)

\* most items a list of the store specification holds
MaxItems == 2

\* most items a list of the reordering specification holds
MaxMoveItems == 3

\* most files one drop hands to addFiles
MaxDrop == 2

\* most rows a parsed list text holds
MaxRows == 2

\* clock steps the store specification observes
MaxTicks == 2

\* clock steps a playback decision is evaluated over
MaxDecideTicks == 3

----------------------------------------------------------------------------
(* Arrays *)

\* Array.prototype.findIndex: the first 0-based index whose element satisfies
\* Test, -1 when there is none
findIndex(seq, Test(_)) ==
    IF \E k \in 1..Len(seq) : Test(seq[k])
    THEN (CHOOSE k \in 1..Len(seq) :
              Test(seq[k]) /\ \A j \in 1..(k - 1) : ~Test(seq[j])) - 1
    ELSE -1

\* seq.splice(i, 1): the array without its element at 0-based index i
spliceOut(seq, i) ==
    [k \in 1..(Len(seq) - 1) |-> IF k <= i THEN seq[k] ELSE seq[k + 1]]

\* seq.splice(i, 0, x): the array with x inserted at 0-based index i
spliceIn(seq, i, x) ==
    [k \in 1..(Len(seq) + 1) |->
        IF k <= i THEN seq[k] ELSE IF k = i + 1 THEN x ELSE seq[k - 1]]

\* Array.prototype.filter
filter(seq, Test(_)) == SelectSeq(seq, Test)

Ids(seq) == {seq[k].id : k \in 1..Len(seq)}

----------------------------------------------------------------------------
(* The store as a value: the functions of state.js map a store to a store *)

Store ==
    [items |-> items, currentIndex |-> currentIndex, startedAt |-> startedAt,
     currentTime |-> currentTime, isPaused |-> isPaused, idCount |-> idCount,
     nUpdate |-> 0, nTimeUpdate |-> 0]

notify(s) == [s EXCEPT !.nUpdate = @ + 1]

getItems(s) == s.items

setPaused(s, value) == notify([s EXCEPT !.isPaused = value])

\* setCurrentTime calling notify() as the other setters do
setCurrentTime_notify(s, sec) ==
    notify([s EXCEPT !.currentTime = Max(0, sec)])

setCurrentTime(s, sec) ==
    [s EXCEPT !.currentTime = Max(0, sec), !.nTimeUpdate = @ + 1]

\* f.type.startsWith('audio/')
isAudio(f) == f.type.major = "audio"

newItem(file, id) ==
    [id |-> id, file |-> file, name |-> file.name, loop |-> FALSE,
     maxLoopSeconds |-> Null, duration |-> Null]

\* every file of one drop given the same id
addFiles_sameId(s, files) ==
    LET audioFiles == filter(files, isAudio)
        pushed == [k \in 1..Len(audioFiles) |->
                      newItem(audioFiles[k], s.idCount + 1)]
    IN  notify([s EXCEPT !.items = @ \o pushed,
                         !.idCount = @ + Len(audioFiles)])

addFiles(s, files) ==
    LET audioFiles == filter(files, isAudio)
        pushed == [k \in 1..Len(audioFiles) |->
                      newItem(audioFiles[k], s.idCount + k)]
    IN  notify([s EXCEPT !.items = @ \o pushed,
                         !.idCount = @ + Len(audioFiles)])

setCurrentIndexCursor_inclusive(s, index) ==
    IF ToNumber(index) >= 0 /\ ToNumber(index) <= Len(s.items) THEN index ELSE Null

setCurrentIndexCursor(s, index) ==
    IF ToNumber(index) >= 0 /\ ToNumber(index) < Len(s.items) THEN index ELSE Null

setCurrentIndex(s, index, t) ==
    LET cur == setCurrentIndexCursor(s, index)
    IN  notify([s EXCEPT !.currentIndex = cur,
                         !.startedAt = IF cur # Null THEN t ELSE Null,
                         !.currentTime = 0,
                         !.isPaused = (cur = Null)])

resetStartedAt(s, t) == notify([s EXCEPT !.startedAt = t])

\* lines 145-149 and 158-162: the next index, or stop after the last item
nextOrStop_offByOne(cur, len) ==
    IF cur + 1 <= len THEN [action |-> "next", index |-> cur + 1]
    ELSE [action |-> "stop"]

nextOrStop(cur, len) ==
    IF cur + 1 < len THEN [action |-> "next", index |-> cur + 1]
    ELSE [action |-> "stop"]

\* item.loop && item.maxLoopSeconds != null && item.maxLoopSeconds > 0
isBoundedLoop(item) ==
    item.loop /\ item.maxLoopSeconds # Null /\ item.maxLoopSeconds > 0

\* elapsed >= item.maxLoopSeconds, elapsed being elapsedMs / 1000
capReached_strict(item, elapsedMs) == elapsedMs > item.maxLoopSeconds * MsPerSecond

capReached(item, elapsedMs) == elapsedMs >= item.maxLoopSeconds * MsPerSecond

\* item.loop && (item.maxLoopSeconds == null || item.maxLoopSeconds <= 0)
isUnboundedLoop_nullOnly(item) == item.loop /\ item.maxLoopSeconds = Null

\* the test of the second branch without item.loop
isUnboundedLoop_noFlag(item) == item.maxLoopSeconds = Null \/ item.maxLoopSeconds <= 0

isUnboundedLoop(item) ==
    item.loop /\ (item.maxLoopSeconds = Null \/ item.maxLoopSeconds <= 0)

getNextPlaybackAction(s, t) ==
    IF s.currentIndex = Null \/ s.currentIndex >= Len(s.items)
    THEN [action |-> "stop"]
    ELSE
      LET item == s.items[s.currentIndex + 1]
          elapsedMs == IF s.startedAt # Null THEN t - s.startedAt ELSE 0
      IN  IF isBoundedLoop(item)
          THEN IF capReached(item, elapsedMs)
               THEN nextOrStop(s.currentIndex, Len(s.items))
               ELSE [action |-> "loop"]
          ELSE IF isUnboundedLoop(item)
          THEN [action |-> "loop"]
          ELSE nextOrStop(s.currentIndex, Len(s.items))

\* the two adjustments of the cursor swapped
moveItemCursor_swapped(cur, fromIndex, toIndex) ==
    IF cur = fromIndex THEN toIndex
    ELSE IF cur # Null
    THEN IF fromIndex < cur /\ toIndex >= cur THEN cur + 1
         ELSE IF fromIndex > cur /\ toIndex <= cur THEN cur - 1
         ELSE cur
    ELSE cur

\* the cursor not adjusted when the item lands on its position
moveItemCursor_strict(cur, fromIndex, toIndex) ==
    IF cur = fromIndex THEN toIndex
    ELSE IF cur # Null
    THEN IF fromIndex < cur /\ toIndex > cur THEN cur - 1
         ELSE IF fromIndex > cur /\ toIndex < cur THEN cur + 1
         ELSE cur
    ELSE cur

moveItemCursor(cur, fromIndex, toIndex) ==
    IF cur = fromIndex THEN toIndex
    ELSE IF cur # Null
    THEN IF fromIndex < cur /\ toIndex >= cur THEN cur - 1
         ELSE IF fromIndex > cur /\ toIndex <= cur THEN cur + 1
         ELSE cur
    ELSE cur

moveItem(s, fromIndex, toIndex) ==
    IF fromIndex < 0 \/ fromIndex >= Len(s.items)
       \/ toIndex < 0 \/ toIndex >= Len(s.items)
    THEN s
    ELSE
      LET removed == s.items[fromIndex + 1]
          moved == spliceIn(spliceOut(s.items, fromIndex), toIndex, removed)
      IN  notify([s EXCEPT !.items = moved,
                           !.currentIndex = moveItemCursor(@, fromIndex, toIndex)])

\* a patch that replaces the settings instead of merging into them
patchItem_replace(item, patch) ==
    [f \in DOMAIN item |->
        IF f \in {"loop", "maxLoopSeconds", "duration"}
        THEN IF f \in DOMAIN patch THEN patch[f] ELSE newItem(item.file, item.id)[f]
        ELSE item[f]]

\* the assignments of updateItem: only loop, maxLoopSeconds and duration are read
\* from the patch
patchItem(item, patch) ==
    [f \in DOMAIN item |->
        IF f \in {"loop", "maxLoopSeconds", "duration"} /\ f \in DOMAIN patch
        THEN patch[f]
        ELSE item[f]]

updateItem(s, id, patch) ==
    LET i == findIndex(s.items, LAMBDA it : it.id = id)
    IN  IF i = -1 THEN s
        ELSE notify([s EXCEPT !.items[i + 1] = patchItem(@, patch)])

\* matchRows, but a row takes the first item of its name whether or not an earlier
\* row has taken it
RECURSIVE matchRows_reuse(_, _, _, _)
matchRows_reuse(current, parsed, used, newItems) ==
    IF parsed = <<>> THEN [used |-> used, newItems |-> newItems]
    ELSE
      LET p == Head(parsed)
          idx == findIndex(current, LAMBDA it : it.name = p.name)
      IN  IF idx >= 0
          THEN matchRows_reuse(current, Tail(parsed), used \cup {current[idx + 1].id},
                               Append(newItems,
                                      [current[idx + 1] EXCEPT
                                          !.loop = p.loop,
                                          !.maxLoopSeconds = p.maxLoopSeconds]))
          ELSE matchRows_reuse(current, Tail(parsed), used, newItems)

\* matchRows, but a matched item keeps its own loop settings
RECURSIVE matchRows_keepSettings(_, _, _, _)
matchRows_keepSettings(current, parsed, used, newItems) ==
    IF parsed = <<>> THEN [used |-> used, newItems |-> newItems]
    ELSE
      LET p == Head(parsed)
          idx == findIndex(current, LAMBDA it : it.name = p.name /\ it.id \notin used)
      IN  IF idx >= 0
          THEN matchRows_keepSettings(current, Tail(parsed),
                                      used \cup {current[idx + 1].id},
                                      Append(newItems, current[idx + 1]))
          ELSE matchRows_keepSettings(current, Tail(parsed), used, newItems)

\* the first loop of loadListData: the rows consume the current items by name
RECURSIVE matchRows(_, _, _, _)
matchRows(current, parsed, used, newItems) ==
    IF parsed = <<>> THEN [used |-> used, newItems |-> newItems]
    ELSE
      LET p == Head(parsed)
          idx == findIndex(current, LAMBDA it : it.name = p.name /\ it.id \notin used)
      IN  IF idx >= 0
          THEN matchRows(current, Tail(parsed), used \cup {current[idx + 1].id},
                         Append(newItems,
                                [current[idx + 1] EXCEPT
                                    !.loop = p.loop,
                                    !.maxLoopSeconds = p.maxLoopSeconds]))
          ELSE matchRows(current, Tail(parsed), used, newItems)

\* followPlaying, but the cursor keeps its index
followPlaying_keepIndex(current, newItems, cur) == cur

\* the end of loadListData: the cursor goes to where the item it was on is now
followPlaying(current, newItems, cur) ==
    LET playingId == IF cur # Null /\ cur < Len(current)
                     THEN current[cur + 1].id
                     ELSE Null
        found == IF playingId # Null
                 THEN findIndex(newItems, LAMBDA it : it.id = playingId)
                 ELSE Null
    IN  IF found = -1 THEN Null ELSE found

loadListData(s, parsed) ==
    IF Len(parsed) = 0 THEN s
    ELSE
      LET current == s.items
          m == matchRows(current, parsed, {}, <<>>)
          rest == filter(current, LAMBDA it : it.id \notin m.used)
          newItems == m.newItems \o rest
      IN  notify([s EXCEPT !.items = newItems,
                           !.currentIndex = followPlaying(current, newItems, @)])

---------------------------------------------------------------------------------------------------------------------------------------------------
(* Inputs *)

AudioType == [major |-> "audio", minor |-> "mpeg"]

TextType == [major |-> "text", minor |-> "plain"]

\* one audio file name, and a list text among the dropped files
PlainFiles == {[name |-> "a", type |-> AudioType], [name |-> "list.txt", type |-> TextType]}

\* two audio file names (a name may occur twice in a list), and a list text
NamedFiles == PlainFiles \cup {[name |-> "b", type |-> AudioType]}

SeqsUpTo(S, n) == UNION {[1..k -> S] : k \in 0..n}

Patches ==
    {[loop |-> TRUE], [loop |-> FALSE], [maxLoopSeconds |-> 1],
     [maxLoopSeconds |-> Null], [duration |-> 2], [bpm |-> 120], [key |-> "Am"],
     [loop |-> TRUE, maxLoopSeconds |-> 1]}

LoopPatches == {[loop |-> TRUE]}

\* the loop settings the list UI and a list text can give an item
CapPatches ==
    {[loop |-> TRUE], [loop |-> FALSE], [maxLoopSeconds |-> 1],
     [maxLoopSeconds |-> Null], [maxLoopSeconds |-> 0]}

\* rows of a parsed list text; no file is named "c"
Rows ==
    {[name |-> "a", loop |-> TRUE, maxLoopSeconds |-> 1],
     [name |-> "b", loop |-> FALSE, maxLoopSeconds |-> Null],
     [name |-> "c", loop |-> TRUE, maxLoopSeconds |-> 1]}

----------------------------------------------------------------------------
(* Handlers *)

\* the store s0 a handler leaves becomes the next state
Assign(s0) ==
  \E s \in {s0} :
    /\ items' = s.items
    /\ currentIndex' = s.currentIndex
    /\ startedAt' = s.startedAt
    /\ currentTime' = s.currentTime
    /\ isPaused' = s.isPaused
    /\ idCount' = s.idCount
    /\ nUpdate' = s.nUpdate
    /\ nTimeUpdate' = s.nTimeUpdate
    /\ now' = now

\* a call of the store by a client, which rec records
Commit(s, rec) ==
    /\ Assign(s)
    /\ last' = rec
    /\ UNCHANGED <<engineVars, snapshot, jobVars>>

Init ==
    /\ items = <<>>
    /\ currentIndex = Null
    /\ startedAt = Null
    /\ currentTime = 0
    /\ isPaused = FALSE
    /\ idCount = 0
    /\ now = 0
    /\ nUpdate = 0
    /\ nTimeUpdate = 0
    /\ last = [op |-> "init"]
    /\ currentPlayUrl = Null
    /\ realtimeKeyTimerId = FALSE
    /\ currentTrackLoopElapsed = 0
    /\ currentObjectUrl = Null
    /\ audio = [src |-> Null, playing |-> FALSE]
    /\ objectUrls = {}
    /\ canplayListeners = <<>>
    /\ snapshot = <<>>
    /\ currentPlayBuffer = Null
    /\ decodeJobs = {}
    /\ analysisJobs = {}
    /\ realTimeKey = Null
    /\ canplayDecodes = <<>>
    /\ loadingDurationIds = {}
    /\ durationJobs = EmptyBag
    /\ failedDurationIds = {}
    /\ analyzingBpmIds = {}
    /\ bpmJobs = EmptyBag
    /\ audioCurrentTime = 0
    /\ endedPending = "none"

\* time passes
Advance(maxTicks) ==
    /\ now + TickMs <= maxTicks * TickMs
    /\ now' = now + TickMs
    /\ last' = [op |-> "advance"]
    /\ nUpdate' = 0
    /\ nTimeUpdate' = 0
    /\ UNCHANGED <<items, currentIndex, startedAt, currentTime, isPaused, idCount>>
    /\ UNCHANGED <<engineVars, snapshot, jobVars>>

AddFiles(files) ==
    Commit(addFiles(Store, files), [op |-> "addFiles", files |-> files])

SetCurrentIndex(index) ==
    Commit(setCurrentIndex(Store, index, now),
           [op |-> "setCurrentIndex", index |-> index])

SetPaused(value) ==
    Commit(setPaused(Store, value), [op |-> "setPaused", value |-> value])

SetCurrentTime(sec) ==
    Commit(setCurrentTime(Store, sec), [op |-> "setCurrentTime", sec |-> sec])

ResetStartedAt ==
    Commit(resetStartedAt(Store, now), [op |-> "resetStartedAt"])

MoveItem(fromIndex, toIndex) ==
    Commit(moveItem(Store, fromIndex, toIndex),
           [op |-> "moveItem", fromIndex |-> fromIndex, toIndex |-> toIndex])

UpdateItem(id, patch) ==
    Commit(updateItem(Store, id, patch),
           [op |-> "updateItem", id |-> id, patch |-> patch])

LoadListData(parsed) ==
    Commit(loadListData(Store, parsed),
           [op |-> "loadListData", parsed |-> parsed])

\* the arguments the callers of the store are given
DropFiles(Files, maxItems) ==
    {files \in SeqsUpTo(Files, MaxDrop) :
        Len(items) + Len(filter(files, isAudio)) <= maxItems}

Indices == (-1..(Len(items) + 1)) \cup {Null}

\* index is the index of a row of the list
InRange(index) == index # Null /\ 0 <= index /\ index < Len(items)

----------------------------------------------------------------------------
(* Reordering: addFiles, setCurrentIndex and moveItem *)

MoveNext ==
    \/ \E files \in DropFiles(NamedFiles, MaxMoveItems) : AddFiles(files)
    \/ \E index \in Indices : SetCurrentIndex(index)
    \/ \E f \in -1..Len(items), t \in -1..Len(items) : MoveItem(f, t)

SpecMove == Init /\ [][MoveNext]_vars

----------------------------------------------------------------------------
(* The cursor and the clock *)

CursorNext ==
    \/ Advance(MaxTicks)
    \/ \E files \in DropFiles(PlainFiles, MaxItems) : AddFiles(files)
    \/ \E index \in Indices : SetCurrentIndex(index)
    \/ \E value \in BOOLEAN : SetPaused(value)
    \/ \E sec \in -1..1 : SetCurrentTime(sec)
    \/ ResetStartedAt

SpecCursor == Init /\ [][CursorNext]_vars

----------------------------------------------------------------------------
(* The fields of the items: updateItem *)

ItemsNext ==
    \/ \E files \in DropFiles(PlainFiles, MaxItems) : AddFiles(files)
    \/ \E index \in (0..(Len(items) - 1)) \cup {Null} : SetCurrentIndex(index)
    \/ \E id \in 1..(MaxItems + 1), patch \in Patches : UpdateItem(id, patch)

SpecItems == Init /\ [][ItemsNext]_vars

----------------------------------------------------------------------------
(* The loop settings the playback decision reads *)

DecideNext ==
    \/ \E files \in DropFiles(PlainFiles, MaxItems) : AddFiles(files)
    \/ \E index \in (0..(Len(items) - 1)) \cup {Null} : SetCurrentIndex(index)
    \/ \E id \in 1..MaxItems, patch \in CapPatches : UpdateItem(id, patch)

SpecDecide == Init /\ [][DecideNext]_vars

----------------------------------------------------------------------------
(* The list as a whole: every function of the store that changes items *)

ListNext ==
    \/ \E files \in DropFiles(NamedFiles, MaxItems) : AddFiles(files)
    \/ \E index \in (0..(Len(items) - 1)) \cup {Null} : SetCurrentIndex(index)
    \/ \E f \in 0..(Len(items) - 1), t \in 0..(Len(items) - 1) : MoveItem(f, t)
    \/ \E id \in 1..(MaxItems + 1), patch \in LoopPatches : UpdateItem(id, patch)
    \/ \E parsed \in SeqsUpTo(Rows, MaxRows) : LoadListData(parsed)

SpecList == Init /\ [][ListNext]_vars

----------------------------------------------------------------------------
(* The arrays getItems() hands out.  [...items] copies the array and not   *)
(* the objects in it: an element of the copy is the object the store       *)
(* holds, which its id names.                                              *)

\* the objects of the array getItems() returns
objectsOf(seq) == [k \in 1..Len(seq) |-> seq[k].id]

\* an assignment to a field of the object with that id
objectWrite(s, id, field, value) ==
    [s EXCEPT !.items =
        [j \in 1..Len(@) |->
            IF @[j].id = id THEN [@[j] EXCEPT ![field] = value] ELSE @[j]]]

\* const snapshot = getItems()
GetItems ==
    /\ snapshot' = objectsOf(getItems(Store))
    /\ last' = [op |-> "getItems"]
    /\ nUpdate' = 0
    /\ nTimeUpdate' = 0
    /\ UNCHANGED <<items, currentIndex, startedAt, currentTime, isPaused, idCount>>
    /\ UNCHANGED <<now, engineVars, jobVars>>

\* snapshot[k].loop = value, snapshot[k].maxLoopSeconds = value (k is 0-based)
SnapshotItemWrite(k, field, value) ==
    /\ Assign(objectWrite(Store, snapshot[k + 1], field, value))
    /\ last' = [op |-> "snapshotItemWrite", k |-> k, field |-> field]
    /\ UNCHANGED <<engineVars, snapshot, jobVars>>

\* snapshot.splice(k, 1)
SnapshotArrayWrite(k) ==
    /\ snapshot' = spliceOut(snapshot, k)
    /\ last' = [op |-> "snapshotArrayWrite", k |-> k]
    /\ nUpdate' = 0
    /\ nTimeUpdate' = 0
    /\ UNCHANGED <<items, currentIndex, startedAt, currentTime, isPaused, idCount>>
    /\ UNCHANGED <<now, engineVars, jobVars>>

SnapshotNext ==
    \/ \E files \in DropFiles(PlainFiles, MaxItems) : AddFiles(files)
    \/ \E f \in 0..(Len(items) - 1), t \in 0..(Len(items) - 1) : MoveItem(f, t)
    \/ \E id \in 1..MaxItems, patch \in LoopPatches : UpdateItem(id, patch)
    \/ GetItems
    \/ \E k \in 0..(Len(snapshot) - 1), value \in BOOLEAN :
           SnapshotItemWrite(k, "loop", value)
    \/ \E k \in 0..(Len(snapshot) - 1), value \in {1, Null} :
           SnapshotItemWrite(k, "maxLoopSeconds", value)
    \/ \E k \in 0..(Len(snapshot) - 1) : SnapshotArrayWrite(k)

SpecSnapshot == Init /\ [][SnapshotNext]_vars

----------------------------------------------------------------------------
(* The playback engine as a value: the store, the variables of main.js and *)
(* of audio.js, the audio element and the object URL registry              *)

Engine ==
    [s |-> Store,
     currentPlayUrl |-> currentPlayUrl,
     realtimeKeyTimerId |-> realtimeKeyTimerId,
     currentTrackLoopElapsed |-> currentTrackLoopElapsed,
     currentObjectUrl |-> currentObjectUrl,
     audio |-> audio,
     objectUrls |-> objectUrls,
     canplayListeners |-> canplayListeners]

\* the URLs the registry or a variable still holds
UrlsInUse(e) ==
    (e.objectUrls \cup {e.currentPlayUrl, e.currentObjectUrl, e.audio.src}) \ {Null}

\* URL.createObjectURL returns a URL that is in use nowhere
createObjectURL(e) ==
    CHOOSE u \in 1..(Cardinality(UrlsInUse(e)) + 1) :
        /\ u \notin UrlsInUse(e)
        /\ \A v \in 1..(u - 1) : v \in UrlsInUse(e)

revokeObjectURL(e, url) == [e EXCEPT !.objectUrls = @ \ {url}]

\* a new URL for the track without the release of the one before
replacePlayUrl_keep(e) ==
    LET url == createObjectURL(e)
    IN  [e EXCEPT !.currentPlayUrl = url, !.objectUrls = @ \cup {url}]

\* if (currentPlayUrl) URL.revokeObjectURL(currentPlayUrl);
\* currentPlayUrl = URL.createObjectURL(item.file)
replacePlayUrl(e) ==
    LET e1 == IF e.currentPlayUrl # Null THEN revokeObjectURL(e, e.currentPlayUrl) ELSE e
        url == createObjectURL(e1)
    IN  [e1 EXCEPT !.currentPlayUrl = url, !.objectUrls = @ \cup {url}]

\* if (currentPlayUrl) { URL.revokeObjectURL(currentPlayUrl); currentPlayUrl = null }
releasePlayUrl(e) ==
    IF e.currentPlayUrl # Null
    THEN [revokeObjectURL(e, e.currentPlayUrl) EXCEPT !.currentPlayUrl = Null]
    ELSE e

\* if (realtimeKeyTimerId != null) { clearInterval(...); realtimeKeyTimerId = null }
clearRealtimeKeyTimer(e) == [e EXCEPT !.realtimeKeyTimerId = FALSE]

startRealtimeKeyUpdates(e) == [e EXCEPT !.realtimeKeyTimerId = TRUE]

\* audio.play() of the element: it plays what its src names
elementPlay(e) == [e EXCEPT !.audio.playing = (e.audio.src # Null)]

\* audio.js revokeCurrent()
revokeCurrent(e) ==
    IF e.currentObjectUrl # Null
    THEN [revokeObjectURL(e, e.currentObjectUrl) EXCEPT !.currentObjectUrl = Null]
    ELSE e

\* audio.js play(url): a restart for the URL it holds, a load for another one
audioPlay(e, url) ==
    IF e.currentObjectUrl = url
    THEN elementPlay(e)
    ELSE elementPlay([revokeCurrent(e) EXCEPT !.currentObjectUrl = url,
                                              !.audio.src = url])

\* audio.js pause()
audioPause(e) == [e EXCEPT !.audio.playing = FALSE]

playItemAtIndex(e, index, t) ==
    IF index < 0 \/ index >= Len(e.s.items) THEN e
    ELSE
      LET e1 == clearRealtimeKeyTimer(replacePlayUrl(e))
          e2 == audioPlay(e1, e1.currentPlayUrl)
          e3 == [e2 EXCEPT !.s = setPaused(setCurrentIndex(@, index, t), FALSE),
                           !.currentTrackLoopElapsed = 0]
      IN  startRealtimeKeyUpdates(e3)

\* items[idx].duration ?? 0
durationOrZero(item) == IF item.duration = Null THEN 0 ELSE item.duration

\* performPlaybackAction with a LOOP that stamps startedAt again (resetStartedAt)
performPlaybackAction_restamp(e, action, t) ==
    IF action.action = "loop"
    THEN
      LET idx == e.s.currentIndex
          e1 == IF idx # Null /\ idx < Len(e.s.items)
                THEN [e EXCEPT !.currentTrackLoopElapsed =
                                   @ + durationOrZero(e.s.items[idx + 1])]
                ELSE e
          e2 == [e1 EXCEPT !.s = setPaused(resetStartedAt(@, t), FALSE)]
      IN  audioPlay(e2, e2.currentPlayUrl)
    ELSE IF action.action = "next"
    THEN
      LET e1 == [e EXCEPT !.s = setPaused(setCurrentIndex(@, action.index, t), FALSE),
                          !.currentTrackLoopElapsed = 0]
          e2 == replacePlayUrl(e1)
      IN  startRealtimeKeyUpdates(audioPlay(e2, e2.currentPlayUrl))
    ELSE
      LET e1 == [e EXCEPT !.s = setCurrentIndex(@, Null, t)]
      IN  releasePlayUrl(clearRealtimeKeyTimer(e1))

performPlaybackAction(e, action, t) ==
    IF action.action = "loop"
    THEN
      LET idx == e.s.currentIndex
          e1 == IF idx # Null /\ idx < Len(e.s.items)
                THEN [e EXCEPT !.currentTrackLoopElapsed =
                                   @ + durationOrZero(e.s.items[idx + 1])]
                ELSE e
          e2 == [e1 EXCEPT !.s = setPaused(@, FALSE)]
      IN  audioPlay(e2, e2.currentPlayUrl)
    ELSE IF action.action = "next"
    THEN
      LET e1 == [e EXCEPT !.s = setPaused(setCurrentIndex(@, action.index, t), FALSE),
                          !.currentTrackLoopElapsed = 0]
          e2 == replacePlayUrl(e1)
      IN  startRealtimeKeyUpdates(audioPlay(e2, e2.currentPlayUrl))
    ELSE
      LET e1 == [e EXCEPT !.s = setCurrentIndex(@, Null, t)]
      IN  releasePlayUrl(clearRealtimeKeyTimer(e1))

handleEnded(e, t) == performPlaybackAction(e, getNextPlaybackAction(e.s, t), t)

pausePlayback(e) == [audioPause(e) EXCEPT !.s = setPaused(@, TRUE)]

\* stopPlayback without the clearInterval of the realtime key timer
stopPlayback_keepTimer(e, t) ==
    LET e1 == [audioPause(e) EXCEPT !.s = setCurrentIndex(@, Null, t)]
    IN  releasePlayUrl(e1)

stopPlayback(e, t) ==
    LET e1 == [audioPause(e) EXCEPT !.s = setCurrentIndex(@, Null, t)]
    IN  releasePlayUrl(clearRealtimeKeyTimer(e1))

seekPlayback(e, seconds) ==
    IF e.s.currentIndex = Null THEN e
    ELSE [e EXCEPT !.s = setCurrentTime(@, Max(0, seconds))]

\* utils.js getTrackLength
getTrackLength(item) ==
    IF item.maxLoopSeconds # Null /\ item.maxLoopSeconds > 0
    THEN item.maxLoopSeconds
    ELSE durationOrZero(item)

\* items.reduce((s, it) => s + getTrackLength(it), 0) over the first n items
RECURSIVE sumTrackLengths(_, _)
sumTrackLengths(its, n) ==
    IF n = 0 THEN 0 ELSE sumTrackLengths(its, n - 1) + getTrackLength(its[n])

\* utils.js getListStartTimes: element i is the sum of the lengths before item i
getListStartTimes(its) == [k \in 1..Len(its) |-> sumTrackLengths(its, k - 1)]

listTotal(its) == sumTrackLengths(its, Len(its))

Min(a, b) == IF a <= b THEN a ELSE b

\* resolveListTime, but a track is taken up to and including its end
resolveListTime_inclusive(its, listTimeSec) ==
    LET t == Max(0, Min(listTimeSec, listTotal(its)))
        starts == getListStartTimes(its)
        hit == findIndex([k \in 1..Len(its) |-> k],
                         LAMBDA k : t <= starts[k] + getTrackLength(its[k]))
        trackIndex == IF hit = -1 THEN Len(its) - 1 ELSE hit
        positionInTrack == IF hit = -1 THEN getTrackLength(its[Len(its)])
                           ELSE t - starts[hit + 1]
        duration == durationOrZero(its[trackIndex + 1])
    IN  [t |-> t,
         trackIndex |-> trackIndex,
         positionInTrack |-> positionInTrack,
         loopElapsed |-> IF duration > 0
                         THEN (positionInTrack \div duration) * duration ELSE 0,
         positionInCurrentLoop |-> IF duration > 0
                                   THEN positionInTrack % duration ELSE 0]

\* lines 170-186 of seekToAbsoluteListTime: the track and the offsets of a list time
resolveListTime(its, listTimeSec) ==
    LET t == Max(0, Min(listTimeSec, listTotal(its)))
        starts == getListStartTimes(its)
        hit == findIndex([k \in 1..Len(its) |-> k],
                         LAMBDA k : t < starts[k] + getTrackLength(its[k]))
        trackIndex == IF hit = -1 THEN Len(its) - 1 ELSE hit
        positionInTrack == IF hit = -1 THEN getTrackLength(its[Len(its)])
                           ELSE t - starts[hit + 1]
        duration == durationOrZero(its[trackIndex + 1])
    IN  [t |-> t,
         trackIndex |-> trackIndex,
         positionInTrack |-> positionInTrack,
         loopElapsed |-> IF duration > 0
                         THEN (positionInTrack \div duration) * duration ELSE 0,
         positionInCurrentLoop |-> IF duration > 0
                                   THEN positionInTrack % duration ELSE 0]

\* state.js setStartedAt, as seekToAbsolute uses it: startedAt = now - t * 1000
setStartedAt(s, value) == notify([s EXCEPT !.startedAt = value])

\* the onReady closure of seekToAbsoluteListTime
onReady(e, positionInCurrentLoop) ==
    startRealtimeKeyUpdates(
        elementPlay([e EXCEPT !.s = setCurrentTime(@, positionInCurrentLoop)]))

\* ready: audio.readyState >= 2 right after the assignment of audio.src
seekToAbsoluteListTime(e, listTimeSec, t, ready) ==
    IF Len(e.s.items) = 0 THEN e
    ELSE
      LET r == resolveListTime(e.s.items, listTimeSec)
          e1 == clearRealtimeKeyTimer(replacePlayUrl(e))
          e2 == [e1 EXCEPT
                    !.currentTrackLoopElapsed = r.loopElapsed,
                    !.s = setStartedAt(
                              setPaused(setCurrentIndex(@, r.trackIndex, t), FALSE),
                              t - r.t * MsPerSecond),
                    !.audio = [src |-> e1.currentPlayUrl, playing |-> FALSE]]
      IN  IF ready THEN onReady(e2, r.positionInCurrentLoop)
          ELSE [e2 EXCEPT !.canplayListeners = Append(@, r.positionInCurrentLoop)]

\* seekPlayback(0); if (getIsPaused()) audio.play(); setPaused(false)
restartTrack(e) ==
    LET e1 == seekPlayback(e, 0)
        e2 == IF e1.s.isPaused THEN elementPlay(e1) ELSE e1
    IN  [e2 EXCEPT !.s = setPaused(@, FALSE)]

\* getCurrentTime() >= 3
RestartSeconds == 3

goToPrevious(e, t) ==
    LET idx == e.s.currentIndex
    IN  IF Len(e.s.items) = 0 THEN e
        ELSE IF idx # Null /\ e.s.currentTime >= RestartSeconds THEN restartTrack(e)
        ELSE IF idx # Null /\ idx > 0 THEN playItemAtIndex(e, idx - 1, t)
        ELSE IF idx = 0 THEN restartTrack(e)
        ELSE e

togglePlayPause(e, t) ==
    IF Len(e.s.items) = 0 THEN e
    ELSE IF e.s.currentIndex = Null THEN playItemAtIndex(e, 0, t)
    ELSE IF e.s.isPaused THEN [elementPlay(e) EXCEPT !.s = setPaused(@, FALSE)]
    ELSE pausePlayback(e)

goToNext(e, t) ==
    IF Len(e.s.items) = 0 THEN e
    ELSE IF e.s.currentIndex = Null THEN playItemAtIndex(e, 0, t)
    ELSE IF e.s.currentIndex + 1 >= Len(e.s.items) THEN stopPlayback(e, t)
    ELSE playItemAtIndex(e, e.s.currentIndex + 1, t)

\* the callback of setInterval(..., 500); position is what audio.currentTime reads
tick(e, position, t) ==
    LET idx == e.s.currentIndex
        cut == /\ idx # Null
               /\ idx < Len(e.s.items)
               /\ ~e.s.isPaused
               /\ isBoundedLoop(e.s.items[idx + 1])
               /\ position >= e.s.items[idx + 1].maxLoopSeconds
    IN  IF cut
        THEN LET e1 == audioPause(e)
             IN  performPlaybackAction(e1, getNextPlaybackAction(e1.s, t), t)
        ELSE IF idx # Null THEN [e EXCEPT !.s = setCurrentTime(@, position)]
        ELSE e

\* the canplay event: every once-listener runs, in the order of registration
RECURSIVE runListeners(_, _)
runListeners(e, listeners) ==
    IF listeners = <<>> THEN e
    ELSE runListeners(onReady(e, Head(listeners)), Tail(listeners))

canplay(e) == runListeners([e EXCEPT !.canplayListeners = <<>>], e.canplayListeners)

----------------------------------------------------------------------------
(* The application: the handlers main.js, list.js and dropzone.js register *)

\* most seconds of loops the engine adds up
MaxLoopElapsed == 2

\* most canplay listeners waiting on the audio element
MaxListeners == 1

\* the durations the metadata of the files give (seconds)
Durations == {2}

\* the positions audio.currentTime is read at (seconds)
Positions == {0, RestartSeconds}

\* audio.readyState >= 2 right after the assignment of audio.src: the load the
\* assignment starts has reset readyState to HAVE_NOTHING
ReadyStates == {FALSE}

\* object URLs are opaque strings: the URLs in use are renamed in the order
\* currentPlayUrl, currentObjectUrl, audio.src, then those only the registry holds
canonicalUrls(e) ==
    LET p == e.currentPlayUrl
        o == e.currentObjectUrl
        a == e.audio.src
        np == IF p = Null THEN Null ELSE 1
        no == IF o = Null THEN Null ELSE IF o = p THEN 1
              ELSE IF p = Null THEN 1 ELSE 2
        refs == {p, o, a} \ {Null}
        na == IF a = Null THEN Null ELSE IF a = p THEN np ELSE IF a = o THEN no
              ELSE Cardinality(refs)
        held == (IF p \in e.objectUrls THEN {np} ELSE {})
                \cup (IF o \in e.objectUrls THEN {no} ELSE {})
                \cup (IF a \in e.objectUrls THEN {na} ELSE {})
        loose == Cardinality(e.objectUrls \ refs)
    IN  [e EXCEPT !.currentPlayUrl = np,
                  !.currentObjectUrl = no,
                  !.audio.src = na,
                  !.objectUrls = held \cup ((Cardinality(refs) + 1)..
                                                (Cardinality(refs) + loose))]

\* the engine e0 a handler leaves becomes the next state
AssignEngine(e0) ==
  \E e1 \in {e0} : \E e \in {canonicalUrls(e1)} :
    /\ e.currentTrackLoopElapsed <= MaxLoopElapsed
    /\ Len(e.canplayListeners) <= MaxListeners
    /\ Assign(e.s)
    /\ currentPlayUrl' = e.currentPlayUrl
    /\ realtimeKeyTimerId' = e.realtimeKeyTimerId
    /\ currentTrackLoopElapsed' = e.currentTrackLoopElapsed
    /\ currentObjectUrl' = e.currentObjectUrl
    /\ audio' = e.audio
    /\ objectUrls' = e.objectUrls
    /\ canplayListeners' = e.canplayListeners

\* a handler of the application
CommitEngine(e0) == AssignEngine(e0) /\ UNCHANGED <<last, snapshot, jobVars>>

\* dropzone.js processFiles: the audio files of a drop
Drop(files) ==
    /\ filter(files, isAudio) # <<>>
    /\ CommitEngine([Engine EXCEPT !.s = addFiles(@, filter(files, isAudio))])

\* dropzone.js loadOneTxt, main.js loadList: the rows of a list text that was read
ListTextRead(parsed) ==
    /\ Len(parsed) > 0
    /\ CommitEngine([Engine EXCEPT !.s = loadListData(@, parsed)])

\* list.js: the loop button of row k
LoopClick(k) ==
    CommitEngine([Engine EXCEPT
                    !.s = updateItem(@, items[k].id, [loop |-> ~items[k].loop])])

\* list.js: the change of the max-time input of row k, shown on looping rows
MaxTimeChange(k, sec) ==
    /\ items[k].loop
    /\ CommitEngine([Engine EXCEPT
                        !.s = updateItem(@, items[k].id, [maxLoopSeconds |-> sec])])

\* list.js loadDuration: the metadata of the file of row k has loaded
DurationLoaded(k, d) ==
    /\ items[k].duration = Null
    /\ CommitEngine([Engine EXCEPT
                        !.s = updateItem(@, items[k].id, [duration |-> d])])

\* list.js: a drop on the row at index of what was dragged from row fromIndex
RowDrop(fromIndex, index) ==
    /\ fromIndex # index
    /\ CommitEngine([Engine EXCEPT !.s = moveItem(@, fromIndex, index)])

\* list.js: a click on a row or on its play button
PlayRequest(index) ==
    CommitEngine(playItemAtIndex(Engine, index, now))

PauseRequest == CommitEngine(pausePlayback(Engine))

StopRequest == CommitEngine(stopPlayback(Engine, now))

\* list.js: a click on the position bar of the current row
SeekRequest(seconds) ==
    /\ InRange(currentIndex)
    /\ items[currentIndex + 1].duration # Null
    /\ items[currentIndex + 1].duration > 0
    /\ seconds <= items[currentIndex + 1].duration
    /\ CommitEngine(seekPlayback(Engine, seconds))

\* main.js: a click on the progress bar of the list
ProgressClick(listTimeSec, ready) ==
    /\ Len(items) > 0
    /\ listTotal(items) > 0
    /\ listTimeSec <= listTotal(items)
    /\ CommitEngine(seekToAbsoluteListTime(Engine, listTimeSec, now, ready))

Previous == CommitEngine(goToPrevious(Engine, now))

PlayPause == CommitEngine(togglePlayPause(Engine, now))

Next == CommitEngine(goToNext(Engine, now))

\* the ended event of the audio element, which audio.js hands to handleEnded
Ended ==
    /\ audio.playing
    /\ CommitEngine(handleEnded([Engine EXCEPT !.audio.playing = FALSE], now))

Tick(position) ==
    /\ audio.src = Null => position = 0
    /\ CommitEngine(tick(Engine, position, now))

\* the canplay event of the audio element
CanPlay ==
    /\ canplayListeners # <<>>
    /\ CommitEngine(canplay(Engine))

\* the rows of a list text for the files of the application
AppRows ==
    {[name |-> "a", loop |-> TRUE, maxLoopSeconds |-> 1],
     [name |-> "a", loop |-> FALSE, maxLoopSeconds |-> Null]}

\* the application at one reading of the clock: the elapsed time of a track comes
\* from the seeks, which set startedAt back
AppNext ==
    \/ \E files \in DropFiles(PlainFiles, MaxItems) : Drop(files)
    \/ \E parsed \in SeqsUpTo(AppRows, 1) : ListTextRead(parsed)
    \/ \E k \in 1..Len(items) : LoopClick(k)
    \/ \E k \in 1..Len(items), sec \in {Null, 1} : MaxTimeChange(k, sec)
    \/ \E k \in 1..Len(items), d \in Durations : DurationLoaded(k, d)
    \/ \E fromIndex \in 0..Len(items), index \in 0..(Len(items) - 1) :
           RowDrop(fromIndex, index)
    \/ \E index \in 0..(Len(items) - 1) : PlayRequest(index)
    \/ PauseRequest
    \/ StopRequest
    \/ \E seconds \in {0} \cup Durations : SeekRequest(seconds)
    \/ \E listTimeSec \in {1, listTotal(items)}, ready \in ReadyStates :
           ProgressClick(listTimeSec, ready)
    \/ Previous
    \/ PlayPause
    \/ Next
    \/ Ended
    \/ \E position \in Positions : Tick(position)
    \/ CanPlay

Spec == Init /\ [][AppNext]_vars

----------------------------------------------------------------------------
(* Properties of the store *)

Count(seq, x) == Cardinality({k \in 1..Len(seq) : seq[k] = x})

Range(seq) == {seq[k] : k \in 1..Len(seq)}

SameMultiset(a, b) ==
    /\ Len(a) = Len(b)
    /\ \A x \in Range(a) \cup Range(b) : Count(a, x) = Count(b, x)

\* C2: in every state the application reaches, through drops, list texts, row
\* edits and moves, play, pause, stop, seek, previous and next requests, ticks and
\* ended transitions, currentIndex is null or an index of the list.
C2_CursorNullOrInRange == currentIndex = Null \/ InRange(currentIndex)

\* the cursor is on the last of two rows after a transition moved it there
C2_Witness ==
    /\ Len(items) = 2
    /\ currentIndex = 1
    /\ audio.playing
    /\ currentTrackLoopElapsed > 0
    /\ items[1].id > items[2].id

\* C1: moveItem with an in-range pair keeps the multiset of items (ids and all
\* fields), and a selected track stays selected: currentIndex afterwards is the
\* position of the item with the id it had before.
C1_MoveKeepsItemsAndCursor ==
    [][(last'.op = "moveItem" /\ InRange(last'.fromIndex) /\ InRange(last'.toIndex)) =>
          /\ SameMultiset(items', items)
          /\ currentIndex # Null =>
                /\ InRange(currentIndex)'
                /\ items'[currentIndex' + 1].id = items[currentIndex + 1].id]_vars

\* a move from 0 to 2 has crossed the cursor, which was at 1 and is now at 0
C1_Witness ==
    /\ last.op = "moveItem"
    /\ last.fromIndex = 0
    /\ last.toIndex = 2
    /\ Len(items) = 3
    /\ currentIndex = 0

\* the decisions of getNextPlaybackAction on the items of the store, for every
\* cursor, start time and later clock reading
DecideTimes == {k * TickMs : k \in 0..MaxDecideTicks}

DecideInputs ==
    {in \in [cur : (0..(Len(items) + 1)) \cup {Null},
             st : DecideTimes \cup {Null},
             t : DecideTimes] :
        in.st # Null => in.st <= in.t}

Decide(in) ==
    getNextPlaybackAction(
        [Store EXCEPT !.currentIndex = in.cur, !.startedAt = in.st], in.t)

ElapsedMs(in) == IF in.st = Null THEN 0 ELSE in.t - in.st

Advanced(cur) ==
    IF cur + 1 < Len(items) THEN [action |-> "next", index |-> cur + 1]
    ELSE [action |-> "stop"]

\* C3: with loop = false on the current item the decision is never LOOP: it is
\* NEXT(currentIndex + 1) when that index exists and STOP otherwise; and it is
\* STOP when currentIndex is null or past the end of the list.
C3_NoLoopWithoutLoopFlag ==
    \A in \in DecideInputs :
        /\ (in.cur = Null \/ in.cur >= Len(items)) => Decide(in) = [action |-> "stop"]
        /\ (InRange(in.cur) /\ ~items[in.cur + 1].loop) => Decide(in) = Advanced(in.cur)

\* the cursor is on a non-looping item that has a successor: the decision is NEXT
C3_Witness ==
    /\ InRange(currentIndex)
    /\ ~items[currentIndex + 1].loop
    /\ Len(items) = 2
    /\ getNextPlaybackAction(Store, now) = [action |-> "next", index |-> 1]

\* C4: with loop = true and maxLoopSeconds = m > 0 the decision is LOOP while the
\* elapsed time is below m seconds and NEXT/STOP from m seconds on (m included).
C4_BoundedLoopCutsAtCap ==
    \A in \in DecideInputs :
        (/\ InRange(in.cur)
         /\ items[in.cur + 1].loop
         /\ items[in.cur + 1].maxLoopSeconds # Null
         /\ items[in.cur + 1].maxLoopSeconds > 0) =>
            Decide(in) =
                IF ElapsedMs(in) < items[in.cur + 1].maxLoopSeconds * MsPerSecond
                THEN [action |-> "loop"]
                ELSE Advanced(in.cur)

\* the cursor is on a looping item capped at 1 s: LOOP now, not LOOP 1 s later
C4_Witness ==
    /\ InRange(currentIndex)
    /\ items[currentIndex + 1].loop
    /\ items[currentIndex + 1].maxLoopSeconds = 1
    /\ startedAt = now
    /\ getNextPlaybackAction(Store, now).action = "loop"
    /\ getNextPlaybackAction(Store, now + MsPerSecond).action # "loop"

\* C5: with loop = true and maxLoopSeconds null, 0 or negative the decision is LOOP
\* for every elapsed time and at every position, the last included.
C5_UnboundedLoopAlwaysLoops ==
    \A in \in DecideInputs :
        (/\ InRange(in.cur)
         /\ items[in.cur + 1].loop
         /\ (items[in.cur + 1].maxLoopSeconds = Null
                \/ items[in.cur + 1].maxLoopSeconds <= 0)) =>
            Decide(in) = [action |-> "loop"]

\* the cursor is on the last item, looping with maxLoopSeconds = 0
C5_Witness ==
    /\ InRange(currentIndex)
    /\ currentIndex = Len(items) - 1
    /\ items[currentIndex + 1].loop
    /\ items[currentIndex + 1].maxLoopSeconds = 0
    /\ getNextPlaybackAction(Store, now + MaxDecideTicks * TickMs).action = "loop"

\* C6: after setCurrentIndex(index) the cursor is index when 0 <= index < length and
\* null otherwise (a null argument included); startedAt is the current time for a
\* cursor and null without one, currentTime is 0, isPaused says the cursor is null,
\* and one list-changed notification was sent.
C6_SetCurrentIndexResult ==
    last.op = "setCurrentIndex" =>
        /\ currentIndex = IF InRange(last.index) THEN last.index ELSE Null
        /\ startedAt = IF currentIndex # Null THEN now ELSE Null
        /\ currentTime = 0
        /\ isPaused = (currentIndex = Null)
        /\ nUpdate = 1

\* a cursor set after the clock has moved on
C6_Witness ==
    /\ last.op = "setCurrentIndex"
    /\ currentIndex = 1
    /\ now > 0
    /\ startedAt = now

StoreUnchanged == UNCHANGED <<items, currentIndex, startedAt, currentTime, isPaused>>

\* C7: updateItem(id, patch) changes only fields of the patch, only on the item with
\* that id: its other fields, the other items, the order and the cursor fields stay;
\* with no item of that id the store stays as it is.
C7_UpdateItemFrame ==
    [][last'.op = "updateItem" =>
          IF last'.id \in Ids(items)
          THEN /\ UNCHANGED <<currentIndex, startedAt, currentTime, isPaused>>
               /\ Len(items') = Len(items)
               /\ \A k \in 1..Len(items) :
                     /\ items'[k].id = items[k].id
                     /\ items[k].id # last'.id => items'[k] = items[k]
                     /\ DOMAIN items'[k] \subseteq DOMAIN items[k] \cup DOMAIN last'.patch
                     /\ \A f \in DOMAIN items[k] \ DOMAIN last'.patch :
                           /\ f \in DOMAIN items'[k]
                           /\ items'[k][f] = items[k][f]
          ELSE StoreUnchanged]_vars

\* a duration patch has been applied to the second item while its loop settings,
\* set before, and the first item's stay
C7_Witness ==
    /\ last.op = "updateItem"
    /\ last.patch = [duration |-> 2]
    /\ Len(items) = 2
    /\ items[2].id = last.id
    /\ items[2].loop /\ items[2].maxLoopSeconds = 1 /\ items[2].duration = 2
    /\ items[1].loop /\ items[1].duration = Null
    /\ currentIndex # Null

\* C8: after updateItem(id, {bpm: v}) or updateItem(id, {key: k}) for an existing id
\* the item holds bpm = v (key = k), as it does for loop, maxLoopSeconds and
\* duration.
C8_AnalysisResultStored ==
    (last.op = "updateItem" /\ last.id \in Ids(items)) =>
        \A k \in 1..Len(items) :
            items[k].id = last.id =>
                \A f \in DOMAIN last.patch :
                    f \in DOMAIN items[k] /\ items[k][f] = last.patch[f]

\* C9: ids are pairwise distinct in every state; no step changes the id of an item
\* that exists (each id stays in the list, with its file and name); addFiles appends
\* one item per audio file, in order, with an unused id, loop = false,
\* maxLoopSeconds = null and duration = null, and leaves the items before them as
\* they are.
IdsDistinct ==
    \A j \in 1..Len(items), k \in 1..Len(items) :
        j # k => items[j].id # items[k].id

IdsKept ==
    \A k \in 1..Len(items) :
        \E j \in 1..Len(items') :
            /\ items'[j].id = items[k].id
            /\ items'[j].file = items[k].file
            /\ items'[j].name = items[k].name

AddFilesAppends(files) ==
    LET accepted == SelectSeq(files, LAMBDA f : f.type = AudioType)
    IN  /\ Len(items') = Len(items) + Len(accepted)
        /\ SubSeq(items', 1, Len(items)) = items
        /\ \A k \in 1..Len(accepted) :
              LET it == items'[Len(items) + k]
              IN  /\ it.id \notin Ids(items)
                  /\ it.file = accepted[k]
                  /\ it.name = accepted[k].name
                  /\ it.loop = FALSE
                  /\ it.maxLoopSeconds = Null
                  /\ it.duration = Null

C9_IdsUniqueAndStable ==
    /\ []IdsDistinct
    /\ [][IdsKept]_vars
    /\ [][last'.op = "addFiles" => AddFilesAppends(last'.files)]_vars

\* one file of a drop was appended behind a looping item, the other file of the
\* drop was no audio file
C9_Witness ==
    /\ last.op = "addFiles"
    /\ Len(last.files) = 2
    /\ \E k \in 1..2 : last.files[k].type = TextType
    /\ Len(items) = 2
    /\ items[1].loop
    /\ ~items[2].loop

\* C10: what getItems() returns is a defensive snapshot: a write to the returned
\* array, or to a field of an item in it (loop, maxLoopSeconds), leaves what a
\* later getItems() returns from the store as it was.
C10_SnapshotIsDefensive ==
    [][last'.op \in {"snapshotItemWrite", "snapshotArrayWrite"} =>
          getItems(Store)' = getItems(Store)]_vars

----------------------------------------------------------------------------
(* Restoring a list from its rows: loadListData *)

\* the position in current that each row of parsed takes: the first one of the row's
\* name that no earlier row took, 0 when there is none
RECURSIVE Consumed(_, _, _)
Consumed(current, parsed, taken) ==
    IF parsed = <<>> THEN <<>>
    ELSE LET cand == {j \in 1..Len(current) :
                         current[j].name = Head(parsed).name /\ j \notin taken}
             first == IF cand = {} THEN 0
                      ELSE CHOOSE j \in cand : \A k \in cand : j <= k
         IN  <<first>> \o Consumed(current, Tail(parsed), taken \cup {first})

RowOrder(current, parsed) ==
    LET pick == Consumed(current, parsed, {})
        hits == SelectSeq([r \in 1..Len(parsed) |-> r], LAMBDA r : pick[r] # 0)
        left == SelectSeq([j \in 1..Len(current) |-> j],
                          LAMBDA j : \A r \in 1..Len(parsed) : pick[r] # j)
    IN  [k \in 1..Len(hits) |->
            [current[pick[hits[k]]] EXCEPT
                !.loop = parsed[hits[k]].loop,
                !.maxLoopSeconds = parsed[hits[k]].maxLoopSeconds]]
        \o [k \in 1..Len(left) |-> current[left[k]]]

\* C11: loadListData(parsed) with at least one row leaves the list in this order:
\* for each row in row order, the first current item of the row's name that no
\* earlier row consumed, with the row's loop and maxLoopSeconds (a row without such
\* an item contributes nothing); then the items no row consumed, in their original
\* order and with the settings they had.
C11_LoadOrder ==
    [][last'.op = "loadListData" /\ Len(last'.parsed) > 0 =>
          items' = RowOrder(items, last'.parsed)]_vars

\* a row took the second of two items and put it first with the row's settings; the
\* item no row named follows it with other settings
C11_Witness ==
    /\ last.op = "loadListData"
    /\ Len(last.parsed) = 1
    /\ Len(items) = 2
    /\ items[1].id > items[2].id
    /\ items[1].name = last.parsed[1].name
    /\ items[1].loop = last.parsed[1].loop
    /\ items[1].maxLoopSeconds = last.parsed[1].maxLoopSeconds
    /\ items[2].name # last.parsed[1].name
    /\ items[2].loop # items[1].loop

\* C12: whatever the rows are (names that repeat, names no item has), loadListData
\* keeps the length of the list and the set of ids: every current item is in the
\* result exactly once, with its id, name, file and duration.
C12_LoadKeepsItems ==
    [][last'.op = "loadListData" =>
          /\ Len(items') = Len(items)
          /\ Ids(items') = Ids(items)
          /\ \A k \in 1..Len(items) :
                LET same == {j \in 1..Len(items') : items'[j].id = items[k].id}
                IN  /\ Cardinality(same) = 1
                    /\ \A j \in same :
                          /\ items'[j].name = items[k].name
                          /\ items'[j].file = items[k].file
                          /\ items'[j].duration = items[k].duration]_vars

\* two rows of one name were loaded into a list that has one item of that name and
\* one of another name
C12_Witness ==
    /\ last.op = "loadListData"
    /\ Len(last.parsed) = 2
    /\ last.parsed[1].name = last.parsed[2].name
    /\ Len(items) = 2
    /\ items[1].name = last.parsed[1].name
    /\ items[2].name # last.parsed[1].name

\* C13: when a track is selected, loadListData leaves the cursor on the position
\* the item of the same id has in the result; the cursor is null afterwards only if
\* the result has no item of that id.
C13_LoadCursorFollowsItem ==
    [][last'.op = "loadListData" /\ currentIndex # Null =>
          LET id == items[currentIndex + 1].id
          IN  IF id \in Ids(items')
              THEN /\ currentIndex' # Null
                   /\ items'[currentIndex' + 1].id = id
              ELSE currentIndex' = Null]_vars

\* the selected item is the one a row has put first, ahead of an older item
C13_Witness ==
    /\ last.op = "loadListData"
    /\ Len(last.parsed) > 0
    /\ Len(items) = 2
    /\ currentIndex = 0
    /\ items[1].name = last.parsed[1].name
    /\ items[1].id > items[2].id

----------------------------------------------------------------------------
(* Strings.  A string is the sequence of its characters, so that trim, split and *)
(* parseInt do to a string what they do in the program.                          *)

Tab == "\t"

LineFeed == "\n"

CarriageReturn == "\r"

\* the characters String.prototype.trim removes, as far as the texts here have them
Whitespace == {" ", Tab, LineFeed, CarriageReturn}

DigitChars == <<"0", "1", "2", "3", "4", "5", "6", "7", "8", "9">>

\* Number.NaN
NaN == -1000001

RECURSIVE trimStart(_)
trimStart(str) ==
    IF str # <<>> /\ Head(str) \in Whitespace THEN trimStart(Tail(str)) ELSE str

RECURSIVE trimEnd(_)
trimEnd(str) ==
    IF str # <<>> /\ str[Len(str)] \in Whitespace
    THEN trimEnd(SubSeq(str, 1, Len(str) - 1))
    ELSE str

trim(str) == trimEnd(trimStart(str))

\* str.split(sep) for a separator of one character
RECURSIVE split(_, _)
split(str, sep) ==
    LET at == {i \in 1..Len(str) : str[i] = sep}
    IN  IF at = {} THEN <<str>>
        ELSE LET i == CHOOSE j \in at : \A k \in at : j <= k
             IN  <<SubSeq(str, 1, i - 1)>> \o split(SubSeq(str, i + 1, Len(str)), sep)

\* parts.join(sep)
RECURSIVE join(_, _)
join(parts, sep) ==
    IF parts = <<>> THEN <<>>
    ELSE IF Len(parts) = 1 THEN parts[1]
    ELSE parts[1] \o <<sep>> \o join(Tail(parts), sep)

\* text.split(/\r?\n/): a carriage return goes with the line feed that follows it
splitLines(text) ==
    LET pieces == split(text, LineFeed)
    IN  [k \in 1..Len(pieces) |->
            IF k < Len(pieces) /\ pieces[k] # <<>>
               /\ pieces[k][Len(pieces[k])] = CarriageReturn
            THEN SubSeq(pieces[k], 1, Len(pieces[k]) - 1)
            ELSE pieces[k]]

isDigit(ch) == \E d \in 1..10 : DigitChars[d] = ch

digitValue(ch) == (CHOOSE d \in 1..10 : DigitChars[d] = ch) - 1

RECURSIVE leadingDigits(_)
leadingDigits(str) ==
    IF str # <<>> /\ isDigit(Head(str))
    THEN <<Head(str)>> \o leadingDigits(Tail(str))
    ELSE <<>>

RECURSIVE digitsValue(_)
digitsValue(ds) ==
    IF ds = <<>> THEN 0
    ELSE digitsValue(SubSeq(ds, 1, Len(ds) - 1)) * 10 + digitValue(ds[Len(ds)])

\* parseInt(str, 10): leading whitespace, a sign, then digits up to the first
\* character that is none
parseInt(str) ==
    LET t == trimStart(str)
        signed == t # <<>> /\ Head(t) \in {"-", "+"}
        ds == leadingDigits(IF signed THEN Tail(t) ELSE t)
    IN  IF ds = <<>> THEN NaN
        ELSE IF signed /\ Head(t) = "-" THEN 0 - digitsValue(ds)
        ELSE digitsValue(ds)

\* String(n) for a whole number n >= 0
RECURSIVE toString(_)
toString(n) ==
    IF n < 10 THEN <<DigitChars[n + 1]>>
    ELSE toString(n \div 10) \o <<DigitChars[(n % 10) + 1]>>

\* str.padStart(2, '0')
padStart2(str) == IF Len(str) < 2 THEN <<"0">> \o str ELSE str

\* formatMmSs, but the seconds within the minute are written as 00
formatMmSs_wholeMinutes(totalSeconds) ==
    IF totalSeconds = Null \/ totalSeconds = NaN \/ totalSeconds < 0
    THEN <<"0", ":", "0", "0">>
    ELSE toString(totalSeconds \div 60) \o <<":", "0", "0">>

formatMmSs(totalSeconds) ==
    IF totalSeconds = Null \/ totalSeconds = NaN \/ totalSeconds < 0
    THEN <<"0", ":", "0", "0">>
    ELSE toString(totalSeconds \div 60) \o <<":">>
            \o padStart2(toString(totalSeconds % 60))

\* parseMmSs, but the sign of the minutes is not looked at
parseMmSs_signed(str) ==
    LET t == trim(str)
        parts == split(t, ":")
        m == parseInt(parts[1])
        s == parseInt(parts[2])
    IN  IF t = <<>> THEN Null
        ELSE IF Len(parts) # 2 THEN Null
        ELSE IF m = NaN \/ s = NaN \/ s < 0 \/ s >= 60 THEN Null
        ELSE m * 60 + s

parseMmSs(str) ==
    LET t == trim(str)
        parts == split(t, ":")
        m == parseInt(parts[1])
        s == parseInt(parts[2])
    IN  IF t = <<>> THEN Null
        ELSE IF Len(parts) # 2 THEN Null
        ELSE IF m = NaN \/ s = NaN \/ m < 0 \/ s < 0 \/ s >= 60 THEN Null
        ELSE m * 60 + s

----------------------------------------------------------------------------
(* The list text: listSaveLoad.js *)

\* parts.slice(from, to), from and to counted from 0, to exclusive
slice(parts, from, to) == SubSeq(parts, from + 1, to)

\* the row of a line, as a sequence: empty where parseLine returns null
parseLine(line) ==
    LET t == trim(line)
        parts == split(t, Tab)
        n == Len(parts)
    IN  IF t = <<>> THEN <<>>
        ELSE IF n >= 3
        THEN LET maxStr == trim(parts[n])
             IN  <<[name |-> trim(join(slice(parts, 0, n - 2), Tab)),
                    loop |-> (parts[n - 1] = <<"1">>),
                    maxLoopSeconds |-> IF maxStr # <<>> THEN parseMmSs(maxStr) ELSE Null]>>
        ELSE IF n = 2
        THEN <<[name |-> trim(parts[1]), loop |-> (parts[2] = <<"1">>),
                maxLoopSeconds |-> Null]>>
        ELSE <<[name |-> trim(parts[1]), loop |-> FALSE, maxLoopSeconds |-> Null]>>

\* the line listToText writes for an item
itemLine(it) ==
    it.name \o <<Tab>> \o (IF it.loop THEN <<"1">> ELSE <<"0">>) \o <<Tab>>
        \o (IF it.maxLoopSeconds # Null THEN formatMmSs(it.maxLoopSeconds) ELSE <<>>)

listToText(its) == join([k \in 1..Len(its) |-> itemLine(its[k])], LineFeed)

RECURSIVE parseLines(_)
parseLines(lines) ==
    IF lines = <<>> THEN <<>>
    ELSE LET parsed == parseLine(Head(lines))
         IN  (IF parsed # <<>> /\ parsed[1].name # <<>> THEN parsed ELSE <<>>)
                \o parseLines(Tail(lines))

textToList(text) == parseLines(splitLines(text))

----------------------------------------------------------------------------
(* Saving the list as a text and loading that text: saveList and loadList *)

MaxTextItems == 2

\* two audio files; the name of the second has a tab in it
TextFiles ==
    {[name |-> <<"a">>, type |-> AudioType],
     [name |-> <<"a", Tab, "b">>, type |-> AudioType]}

\* what is typed into the max-time input of a row: nothing, 0:00, 1:05
MaxTimeValues == {<<>>, <<"0", ":", "0", "0">>, <<"1", ":", "0", "5">>}

\* the loop button of row k
LoopButton(k) ==
    /\ k \in 1..Len(items)
    /\ UpdateItem(items[k].id, [loop |-> ~items[k].loop])

\* the max-time input of row k, which only a looping row has
MaxTimeInput(k, value) ==
    /\ k \in 1..Len(items)
    /\ items[k].loop
    /\ Commit(updateItem(Store, items[k].id, [maxLoopSeconds |-> parseMmSs(trim(value))]),
              [op |-> "maxTimeInput", k |-> k, value |-> value])

\* the text goes to a file the browser downloads
SaveList ==
    /\ Len(items) > 0
    /\ Commit(Store, [op |-> "saveList", text |-> listToText(getItems(Store))])

\* the text of the file that was picked, or dropped, has been read; lines are the
\* lines the text was made of, where they are known
ReadListText(text, lines) ==
    \E parsed \in {textToList(text)} :
        Commit(IF Len(parsed) > 0 THEN loadListData(Store, parsed) ELSE Store,
               [op |-> "loadList", text |-> text, parsed |-> parsed, lines |-> lines])

LoadList(text) == ReadListText(text, <<>>)

TextNext ==
    \/ \E files \in DropFiles(TextFiles, MaxTextItems) : AddFiles(files)
    \/ \E k \in 1..MaxTextItems : LoopButton(k)
    \/ \E k \in 1..MaxTextItems, value \in MaxTimeValues : MaxTimeInput(k, value)
    \/ SaveList
    \/ last.op = "saveList" /\ LoadList(last.text)

SpecText == Init /\ [][TextNext]_vars

\* a name listToText and textToList carry as it is
CleanName(name) ==
    /\ \A i \in 1..Len(name) : name[i] \notin {Tab, LineFeed, CarriageReturn}
    /\ name # <<>> => Head(name) \notin Whitespace /\ name[Len(name)] \notin Whitespace

HasTab(name) == \E i \in 1..Len(name) : name[i] = Tab

\* the row listToText writes for an item
ExportedRow(it) ==
    [name |-> it.name, loop |-> it.loop, maxLoopSeconds |-> it.maxLoopSeconds]

\* C14: for a list that is not empty and whose names have no tab, no line break and
\* no whitespace at either end, loading the text that listToText has just made of
\* the list leaves the list as it is: the order, and the id, name, duration, loop and
\* maxLoopSeconds of every item (names that repeat and a maxLoopSeconds of null or 0
\* included).
C14_SaveLoadRoundTrip ==
    [][/\ last.op = "saveList"
       /\ last'.op = "loadList"
       /\ last'.text = last.text
       /\ Len(items) > 0
       /\ \A k \in 1..Len(items) : CleanName(items[k].name)
       => items' = items]_vars

\* the text of two items of one name was loaded: the first loops with a cap of 0,
\* the second has no cap
C14_Witness ==
    /\ last.op = "loadList"
    /\ Len(last.parsed) = 2
    /\ Len(items) = 2
    /\ \A k \in 1..2 : CleanName(items[k].name)
    /\ items[1].name = items[2].name
    /\ items[1].loop
    /\ items[1].maxLoopSeconds = 0
    /\ items[2].maxLoopSeconds = Null

\* C15: the line listToText writes for an item whose name has tabs in it is read back
\* by textToList with the item's name, loop and maxLoopSeconds, whether loop is set
\* or not and whether maxLoopSeconds is set or not.
C15_TabNameReadBack ==
    [][last.op = "saveList" /\ last'.op = "loadList" /\ last'.text = last.text =>
          \A k \in 1..Len(items) :
              HasTab(items[k].name) =>
                  /\ Len(last'.parsed) = Len(items)
                  /\ last'.parsed[k] = ExportedRow(items[k])]_vars

----------------------------------------------------------------------------
(* Texts and max times that are not well formed *)

MaxLines == 2

\* two audio files; the name of the second is what a loop column may hold
ImportFiles ==
    {[name |-> <<"a">>, type |-> AudioType], [name |-> <<"1">>, type |-> AudioType]}

\* times parseMmSs is to reject: one part, three parts, minutes that are no number,
\* seconds that are no number, negative minutes, 60 seconds
RejectedTimes ==
    {<<"9", "0">>, <<"1", ":", "2", ":", "3">>, <<"x", ":", "1", "0">>,
     <<"1", ":", "x">>, <<"-", "1", ":", "0", "0">>, <<"1", ":", "6", "0">>}

\* times it takes: 0:10, and 1:5x, of which parseInt reads 1:5
AcceptedTimes == {<<"0", ":", "1", "0">>, <<"1", ":", "5", "x">>}

BlankLine == [name |-> <<>>, loop |-> <<>>, max |-> <<>>]

\* the lines of a list text, by their columns: two well-formed lines, a line whose
\* max column is rejected, a line with an empty name column, a blank line
ImportLines ==
    {[name |-> <<"a">>, loop |-> <<"1">>, max |-> <<"0", ":", "1", "0">>],
     [name |-> <<"a">>, loop |-> <<"0">>, max |-> <<>>],
     [name |-> <<"a">>, loop |-> <<"1">>, max |-> <<"-", "1", ":", "0", "0">>],
     [name |-> <<>>, loop |-> <<"1">>, max |-> <<"0", ":", "1", "0">>],
     BlankLine}

lineText(l) ==
    IF l = BlankLine THEN <<>> ELSE l.name \o <<Tab>> \o l.loop \o <<Tab>> \o l.max

\* the text of a file with these lines, ended by line feeds or by CR LF
fileText(lines, crlf) ==
    join([k \in 1..Len(lines) |->
            lineText(lines[k])
                \o (IF crlf /\ k < Len(lines) THEN <<CarriageReturn>> ELSE <<>>)],
         LineFeed)

ImportNext ==
    \/ \E files \in DropFiles(ImportFiles, MaxTextItems) : AddFiles(files)
    \/ \E k \in 1..MaxTextItems : LoopButton(k)
    \/ \E k \in 1..MaxTextItems, value \in RejectedTimes \cup AcceptedTimes \cup {<<>>} :
          MaxTimeInput(k, value)
    \/ \E lines \in SeqsUpTo(ImportLines, MaxLines), crlf \in BOOLEAN :
          ReadListText(fileText(lines, crlf), lines)

SpecImport == Init /\ [][ImportNext]_vars

\* C16: in every state the maxLoopSeconds of every item is null or a whole number
\* of seconds that is not negative; a max-time edit with a time parseMmSs is to
\* reject (wrong number of parts, minutes or seconds that are no number, a negative
\* part, seconds of 60 or more) stores null, and so does every row of a list text.
CapsNullOrNatural ==
    \A k \in 1..Len(items) :
        items[k].maxLoopSeconds = Null \/ items[k].maxLoopSeconds \in Nat

RejectedEditStoresNull ==
    last'.op = "maxTimeInput" /\ last'.value \in RejectedTimes =>
        /\ Len(items') = Len(items)
        /\ items'[last'.k].maxLoopSeconds = Null

RejectedRowsAreNull ==
    last'.op = "loadList" =>
        /\ \A r \in 1..Len(last'.parsed) :
              last'.parsed[r].maxLoopSeconds = Null
                  \/ last'.parsed[r].maxLoopSeconds \in Nat
        /\ (\A k \in 1..Len(last'.lines) : last'.lines[k].max \in RejectedTimes)
              => \A r \in 1..Len(last'.parsed) : last'.parsed[r].maxLoopSeconds = Null

C16_MaxLoopSecondsNullOrNatural ==
    /\ []CapsNullOrNatural
    /\ [][RejectedEditStoresNull]_vars
    /\ [][RejectedRowsAreNull]_vars

\* a negative time was typed into the max-time input of a row that had a cap; the
\* row has none now
C16_Witness ==
    /\ last.op = "maxTimeInput"
    /\ last.value = <<"-", "1", ":", "0", "0">>
    /\ items[last.k].loop
    /\ items[last.k].maxLoopSeconds = Null
    /\ \E j \in 1..Len(items) : items[j].maxLoopSeconds = 65

\* the rows the lines of a text stand for: none for a blank line or a line with an
\* empty name; no cap where the max column is rejected
ExpectedRows(lines) ==
    LET named == SelectSeq(lines, LAMBDA l : l.name # <<>>)
    IN  [k \in 1..Len(named) |->
            [name |-> named[k].name,
             loop |-> (named[k].loop = <<"1">>),
             maxLoopSeconds |-> IF named[k].max \in RejectedTimes THEN Null
                                ELSE parseMmSs(named[k].max)]]

\* C17: a line that is not well formed affects only itself: a blank line and a line
\* with an empty name are skipped, a line with a max column that cannot be parsed is
\* applied with maxLoopSeconds = null and with its name and loop flag, and every
\* other line of the text is parsed and applied as if the text had only those.
C17_MalformedLineAffectsOnlyItself ==
    [][last'.op = "loadList" =>
          LET rows == ExpectedRows(last'.lines)
          IN  items' = IF rows = <<>> THEN items ELSE RowOrder(items, rows)]_vars

----------------------------------------------------------------------------
(* Seeking on the time line of the whole list: seekToAbsoluteListTime *)

\* the settings the tracks of the time line get: a duration of 2 s, loop, and, on
\* a looping row, a cap of 3 s
SeekPatches == {[duration |-> 2], [loop |-> TRUE], [loop |-> TRUE, maxLoopSeconds |-> 3]}

\* a call of seekToAbsoluteListTime; the audio element is not ready right after
\* the assignment of audio.src
SeekToAbsolute(listTimeSec) ==
    /\ AssignEngine(seekToAbsoluteListTime(Engine, listTimeSec, now, FALSE))
    /\ last' = IF Len(items) = 0
               THEN [op |-> "seekToAbsolute", listTimeSec |-> listTimeSec]
               ELSE [op |-> "seekToAbsolute", listTimeSec |-> listTimeSec,
                     r |-> resolveListTime(items, listTimeSec)]
    /\ UNCHANGED <<snapshot, jobVars>>

\* the canplay event that follows a seek
SeekCanPlay ==
    /\ canplayListeners # <<>>
    /\ AssignEngine(canplay(Engine))
    /\ last' = [op |-> "canplay"]
    /\ UNCHANGED <<snapshot, jobVars>>

SeekNext ==
    \/ \E files \in DropFiles(PlainFiles, MaxItems) : AddFiles(files)
    \/ \E id \in 1..MaxItems, patch \in SeekPatches : UpdateItem(id, patch)
    \/ \E listTimeSec \in -1..(listTotal(items) + 1) : SeekToAbsolute(listTimeSec)
    \/ SeekCanPlay

SpecSeek == Init /\ [][SeekNext]_vars

\* the length of a track on the time line: maxLoopSeconds if it is set and positive,
\* else the duration, else 0
EffectiveLength(it) ==
    IF it.maxLoopSeconds # Null /\ it.maxLoopSeconds > 0 THEN it.maxLoopSeconds
    ELSE IF it.duration # Null THEN it.duration
    ELSE 0

\* the sum of the lengths of the tracks before index i (from 0)
RECURSIVE StartOf(_, _)
StartOf(its, i) ==
    IF i = 0 THEN 0 ELSE StartOf(its, i - 1) + EffectiveLength(its[i])

TotalLength(its) == StartOf(its, Len(its))

\* C18: on a list that is not empty, seekToAbsoluteListTime(t) with 0 <= t < total
\* resolves to the one index i with start_i <= t < start_i + len_i, with
\* positionInTrack = t - start_i, and sets the cursor to i.
C18_SeekResolvesTrack ==
    [][/\ last'.op = "seekToAbsolute"
       /\ Len(items) > 0
       /\ 0 <= last'.listTimeSec
       /\ last'.listTimeSec < TotalLength(items)
       => LET t == last'.listTimeSec
              hits == {i \in 0..(Len(items) - 1) :
                          /\ StartOf(items, i) <= t
                          /\ t < StartOf(items, i) + EffectiveLength(items[i + 1])}
          IN  /\ Cardinality(hits) = 1
              /\ \A i \in hits :
                    /\ last'.r.trackIndex = i
                    /\ last'.r.positionInTrack = t - StartOf(items, i)
                    /\ currentIndex' = i]_vars

\* a seek into the second of two tracks, past its start
C18_Witness ==
    /\ last.op = "seekToAbsolute"
    /\ Len(items) = 2
    /\ 0 <= last.listTimeSec
    /\ last.listTimeSec < TotalLength(items)
    /\ EffectiveLength(items[1]) > 0
    /\ last.r.trackIndex = 1
    /\ last.r.positionInTrack > 0
    /\ currentIndex = 1

\* C19: seekToAbsoluteListTime clamps its argument to [0, total]: on a list that is
\* not empty every t <= 0 resolves to track 0 at offset 0 and every t >= total to
\* the last track at an offset of its effective length; on an empty list the call
\* changes nothing.
C19_SeekClamps ==
    [][last'.op = "seekToAbsolute" =>
          /\ Len(items) = 0 => StoreUnchanged /\ nUpdate' = 0 /\ UNCHANGED engineVars
          /\ Len(items) > 0 /\ last'.listTimeSec <= 0 =>
                /\ last'.r.trackIndex = 0
                /\ last'.r.positionInTrack = 0
                /\ currentIndex' = 0
          /\ Len(items) > 0 /\ last'.listTimeSec >= TotalLength(items) =>
                /\ last'.r.trackIndex = Len(items) - 1
                /\ last'.r.positionInTrack = EffectiveLength(items[Len(items)])
                /\ currentIndex' = Len(items) - 1]_vars

\* C20: seekToAbsoluteListTime splits the offset into repetitions only for a track
\* that loops: with loop = true and a known positive duration the loop-elapsed
\* counter becomes floor(positionInTrack / duration) * duration and playback is
\* requested at positionInTrack mod duration; with loop = false the counter
\* becomes 0.
C20_SeekSplitsLoopsOnly ==
    [][last'.op = "seekToAbsolute" /\ Len(items) > 0 =>
          LET it == items[last'.r.trackIndex + 1]
              pos == last'.r.positionInTrack
          IN  /\ it.loop /\ it.duration # Null /\ it.duration > 0 =>
                    /\ currentTrackLoopElapsed' = (pos \div it.duration) * it.duration
                    /\ canplayListeners'[Len(canplayListeners')] = pos % it.duration
              /\ ~it.loop => currentTrackLoopElapsed' = 0]_vars

\* the decision getNextPlaybackAction takes right after a handler, at the same
\* reading of the clock
DecisionAfter == getNextPlaybackAction(Store, now)

\* C21: right after seekToAbsoluteListTime(t) has resolved to a track with
\* loop = true and maxLoopSeconds = m > 0 at in-track position p, the decision of
\* getNextPlaybackAction is LOOP exactly when p < m, whatever the index of the
\* track.
C21_DecisionAfterSeek ==
    [][last'.op = "seekToAbsolute" /\ Len(items) > 0 =>
          LET it == items'[last'.r.trackIndex + 1]
              p == last'.r.positionInTrack
          IN  isBoundedLoop(it) =>
                  ((DecisionAfter'.action = "loop") <=> (p < it.maxLoopSeconds))]_vars

\* the position playback is requested at: what the canplay listener of the seek
\* assigns to audio.currentTime
RequestedPosition == canplayListeners[Len(canplayListeners)]

\* main.js tick: listStartTimes[idx] + currentTrackLoopElapsed + audio.currentTime,
\* the seconds of the list the progress display shows
listElapsed(its, idx, loopElapsed, position) ==
    getListStartTimes(its)[idx + 1] + loopElapsed + position

\* C22: after seekToAbsoluteListTime(t) on a list that is not empty, the start of
\* the current track plus the loop-elapsed counter plus the position playback is
\* requested at is t clamped to [0, total], and that position p satisfies
\* 0 <= p < duration when the duration of the resolved track is known and positive.
C22_SeekInverseOfProgress ==
    [][last'.op = "seekToAbsolute" /\ Len(items) > 0 =>
          LET t == Max(0, Min(last'.listTimeSec, TotalLength(items)))
              it == items'[currentIndex' + 1]
          IN  /\ listElapsed(items', currentIndex', currentTrackLoopElapsed',
                             RequestedPosition') = t
              /\ it.duration # Null /\ it.duration > 0 =>
                    /\ 0 <= RequestedPosition'
                    /\ RequestedPosition' < it.duration]_vars

----------------------------------------------------------------------------
(* The two notifications of the store: every function of state.js that     *)
(* changes the store, called with arguments that change it and with        *)
(* arguments that make it return early                                     *)

NotifyPatches == {[duration |-> 2]}

\* a list text of one row
NotifyRows == {[name |-> "a", loop |-> TRUE, maxLoopSeconds |-> 1]}

NotifyNext ==
    \/ \E files \in DropFiles(PlainFiles, MaxItems) : AddFiles(files)
    \/ \E index \in Indices : SetCurrentIndex(index)
    \/ \E value \in BOOLEAN : SetPaused(value)
    \/ \E sec \in {-1, 1} : SetCurrentTime(sec)
    \/ ResetStartedAt
    \/ \E f \in -1..Len(items), t \in -1..Len(items) : MoveItem(f, t)
    \/ \E id \in 1..(MaxItems + 1), patch \in NotifyPatches : UpdateItem(id, patch)
    \/ \E parsed \in SeqsUpTo(NotifyRows, 1) : LoadListData(parsed)

SpecNotify == Init /\ [][NotifyNext]_vars

\* the functions of the store that change it, setCurrentTime aside
ListMutators ==
    {"addFiles", "setCurrentIndex", "setPaused", "resetStartedAt", "moveItem",
     "updateItem", "loadListData"}

\* C23: setCurrentTime(sec) stores max(0, sec) as currentTime, sends one time-changed
\* notification and no list-changed one, and leaves items, currentIndex, startedAt
\* and isPaused as they are; every other function of the store that changes
\* something sends the list-changed notification and no time-changed one.
C23_TimeNotificationOnly ==
    [][/\ last'.op = "setCurrentTime" =>
             /\ currentTime' = Max(0, last'.sec)
             /\ nTimeUpdate' = 1
             /\ nUpdate' = 0
             /\ UNCHANGED <<items, currentIndex, startedAt, isPaused>>
       /\ last'.op \in ListMutators =>
             /\ nTimeUpdate' = 0
             /\ nUpdate' = 1 \/ (nUpdate' = 0 /\ StoreUnchanged)]_vars

\* setCurrentTime(-1) during playback of the second track: the time stored is 0 and only the time-changed notification was sent
C23_Witness ==
    /\ last.op = "setCurrentTime"
    /\ last.sec < 0
    /\ currentTime = 0
    /\ currentIndex = 1
    /\ ~isPaused
    /\ startedAt = now
    /\ nTimeUpdate = 1
    /\ nUpdate = 0

----------------------------------------------------------------------------
(* The object URLs of the engine *)

\* C24: after every handler of the application (play, next, previous, stop, seek
\* on the list, ended, tick and the others) at most one object URL the engine
\* created is unreleased, it is the one of the current track (currentPlayUrl), and
\* there is none when currentIndex is null: every URL a track change, a seek or a
\* stop supersedes has been released.
C24_OneSourceHandle ==
    /\ Cardinality(objectUrls) <= 1
    /\ objectUrls \subseteq {currentPlayUrl}
    /\ currentIndex = Null => objectUrls = {}
    /\ currentIndex # Null => objectUrls = {currentPlayUrl}

\* the second track plays from a URL that replaced the one of the first track,
\* which audio.js still names
C24_Witness ==
    /\ currentIndex = 1
    /\ objectUrls = {currentPlayUrl}
    /\ audio.src = currentPlayUrl
    /\ currentObjectUrl # Null
    /\ currentObjectUrl # currentPlayUrl

----------------------------------------------------------------------------
(* The analysis side of the engine (main.js): the decoded buffer of the    *)
(* current track, the decode and analysis promises in flight and the       *)
(* realtime key.  Each function below is the part of the handler of the    *)
(* same name that works on these; a is the record of them, s the store.    *)

\* most promises of main.js in flight
MaxJobs == 2

Analysis ==
    [currentPlayBuffer |-> currentPlayBuffer,
     decodeJobs |-> decodeJobs,
     analysisJobs |-> analysisJobs,
     realTimeKey |-> realTimeKey,
     canplayDecodes |-> canplayDecodes]

\* what decoding a file gives: its buffer, named by the id of the item, with the
\* duration of the file
bufferDuration(buffer) == CHOOSE d \in Durations : TRUE

\* the guard of a completion with no test of the cursor
isCurrentIndex_any(s, index) == TRUE

\* the guard of a completion: getCurrentIndex() === index
isCurrentIndex(s, index) == s.currentIndex = index

\* decodeToBuffer(item.file).then(...) for the item at index; then says what the
\* completion does with the buffer besides keeping it
launchDecode(a, s, index, then) ==
    [a EXCEPT !.decodeJobs =
        @ \cup {[index |-> index, buffer |-> s.items[index + 1].id, then |-> then]}]

\* state.js setRealTimeKey
setRealTimeKey(a, key) == [a EXCEPT !.realTimeKey = key]

\* position is what audio.currentTime reads
runRealtimeAnalysisOnce(a, s, idx, buffer, position) ==
    LET duration == IF idx < Len(s.items) /\ s.items[idx + 1].duration # Null
                    THEN s.items[idx + 1].duration
                    ELSE bufferDuration(buffer)
        startSec == Max(0, position - 2)
        endSec == Min(duration, position + 1)
    IN  IF ~(duration > 0) \/ endSec <= startSec THEN a
        ELSE [a EXCEPT !.analysisJobs = @ \cup {[index |-> idx, buffer |-> buffer]}]

\* main.js 36, 48-52
playItemAtIndexJobs(a, s, index) ==
    IF index < 0 \/ index >= Len(s.items) THEN a
    ELSE launchDecode([a EXCEPT !.currentPlayBuffer = Null], s, index, "analyse")

\* the next branch without currentPlayBuffer = null
performPlaybackActionJobs_keepBuffer(a, s, action) ==
    IF action.action = "loop" THEN a
    ELSE IF action.action = "next"
    THEN launchDecode(a, s, action.index, "analyse")
    ELSE [a EXCEPT !.currentPlayBuffer = Null]

\* main.js 79, 83-88 (next) and 92 (stop); the loop branch leaves the buffer
performPlaybackActionJobs(a, s, action) ==
    IF action.action = "loop" THEN a
    ELSE IF action.action = "next"
    THEN launchDecode([a EXCEPT !.currentPlayBuffer = Null], s, action.index, "analyse")
    ELSE [a EXCEPT !.currentPlayBuffer = Null]

handleEndedJobs(a, s, t) == performPlaybackActionJobs(a, s, getNextPlaybackAction(s, t))

\* main.js 116
stopPlaybackJobs(a) == [a EXCEPT !.currentPlayBuffer = Null]

\* main.js 190, and the item and index onReady keeps for its decodeToBuffer
seekToAbsoluteListTimeJobs(a, s, listTimeSec) ==
    IF Len(s.items) = 0 THEN a
    ELSE
      LET r == resolveListTime(s.items, listTimeSec)
      IN  [a EXCEPT !.currentPlayBuffer = Null,
                    !.canplayDecodes =
                        Append(@, [index |-> r.trackIndex,
                                   buffer |-> s.items[r.trackIndex + 1].id])]

\* the canplay event: every onReady starts its decodeToBuffer (main.js 209-211)
canplayJobs(a) ==
    [a EXCEPT !.canplayDecodes = <<>>,
              !.decodeJobs = @ \cup {[index |-> a.canplayDecodes[k].index,
                                      buffer |-> a.canplayDecodes[k].buffer,
                                      then |-> "keep"] :
                                         k \in 1..Len(a.canplayDecodes)}]

\* the test of the tick that cuts a loop at its cap (main.js 395-398)
capCut(s, position) ==
    /\ s.currentIndex # Null
    /\ s.currentIndex < Len(s.items)
    /\ ~s.isPaused
    /\ isBoundedLoop(s.items[s.currentIndex + 1])
    /\ position >= s.items[s.currentIndex + 1].maxLoopSeconds

\* a decodeToBuffer promise is fulfilled (main.js 48-52, 83-87, 209-211)
decodeDone(a, s, job, position) ==
    LET a1 == [a EXCEPT !.decodeJobs = @ \ {job}]
    IN  IF ~isCurrentIndex(s, job.index) THEN a1
        ELSE IF job.then = "analyse"
        THEN runRealtimeAnalysisOnce([a1 EXCEPT !.currentPlayBuffer = job.buffer],
                                     s, job.index, job.buffer, position)
        ELSE [a1 EXCEPT !.currentPlayBuffer = job.buffer]

\* a decodeToBuffer promise is rejected
decodeFailed(a, job) == [a EXCEPT !.decodeJobs = @ \ {job}]

\* the Promise.all of runRealtimeAnalysisOnce is fulfilled (main.js 140-142); the
\* key and chord found are named by the buffer they were found in
analysisDone(a, s, job) ==
    LET a1 == [a EXCEPT !.analysisJobs = @ \ {job}]
    IN  IF isCurrentIndex(s, job.index) THEN setRealTimeKey(a1, job.buffer) ELSE a1

\* the callback of setInterval(..., 1500) (main.js 147-151)
realtimeKeyTimer(a, s, position) ==
    IF s.currentIndex = Null \/ a.currentPlayBuffer = Null \/ s.isPaused THEN a
    ELSE runRealtimeAnalysisOnce(a, s, s.currentIndex, a.currentPlayBuffer, position)

\* the record a a handler leaves becomes the next state
AssignAnalysis(a0) ==
  \E a \in {a0} :
    /\ Cardinality(a.decodeJobs) + Cardinality(a.analysisJobs) <= MaxJobs
    /\ currentPlayBuffer' = a.currentPlayBuffer
    /\ decodeJobs' = a.decodeJobs
    /\ analysisJobs' = a.analysisJobs
    /\ realTimeKey' = a.realTimeKey
    /\ canplayDecodes' = a.canplayDecodes

\* a handler of main.js: its playback part e, its analysis part a
CommitJobs(e, a, rec) ==
    /\ AssignEngine(e)
    /\ AssignAnalysis(a)
    /\ last' = rec
    /\ UNCHANGED <<snapshot, probeVars, elementVars>>

JobsPlay(index) ==
    CommitJobs(playItemAtIndex(Engine, index, now),
               playItemAtIndexJobs(Analysis, Store, index),
               [op |-> "play", index |-> index])

JobsStop ==
    CommitJobs(stopPlayback(Engine, now), stopPlaybackJobs(Analysis), [op |-> "stop"])

JobsSeek(listTimeSec) ==
    CommitJobs(seekToAbsoluteListTime(Engine, listTimeSec, now, FALSE),
               seekToAbsoluteListTimeJobs(Analysis, Store, listTimeSec),
               [op |-> "seek", listTimeSec |-> listTimeSec])

JobsCanPlay ==
    /\ canplayListeners # <<>>
    /\ CommitJobs(canplay(Engine), canplayJobs(Analysis), [op |-> "canplay"])

\* the ended event; action is the decision handleEnded executes
\* the record keeps the URL and the registry the handler leaves, as they are
\* before the renaming of the URLs, and the buffer it found
JobsEnded ==
    /\ audio.playing
    /\ \E e \in {handleEnded([Engine EXCEPT !.audio.playing = FALSE], now)} :
          CommitJobs(e, handleEndedJobs(Analysis, Store, now),
                     [op |-> "ended", action |-> getNextPlaybackAction(Store, now),
                      currentPlayUrl |-> e.currentPlayUrl,
                      objectUrls |-> e.objectUrls,
                      buffer |-> currentPlayBuffer])

DecodeDone(job, position) ==
    CommitJobs(Engine, decodeDone(Analysis, Store, job, position),
               [op |-> "decodeDone", job |-> job])

DecodeFailed(job) ==
    CommitJobs(Engine, decodeFailed(Analysis, job), [op |-> "decodeFailed", job |-> job])

AnalysisDone(job) ==
    CommitJobs(Engine, analysisDone(Analysis, Store, job),
               [op |-> "analysisDone", job |-> job])

RealtimeKeyTimer(position) ==
    /\ realtimeKeyTimerId
    /\ CommitJobs(Engine, realtimeKeyTimer(Analysis, Store, position),
                  [op |-> "realtimeKeyTimer"])

JobsNext ==
    \/ Advance(MaxTicks)
    \/ \E files \in DropFiles(PlainFiles, MaxItems) : AddFiles(files)
    \/ \E index \in 0..(Len(items) - 1) : JobsPlay(index)
    \/ JobsStop
    \/ \E listTimeSec \in 0..listTotal(items) : JobsSeek(listTimeSec)
    \/ JobsCanPlay
    \/ JobsEnded
    \/ \E job \in decodeJobs, position \in Positions : DecodeDone(job, position)
    \/ \E job \in decodeJobs : DecodeFailed(job)
    \/ \E job \in analysisJobs : AnalysisDone(job)
    \/ \E position \in Positions : RealtimeKeyTimer(position)

SpecJobs == Init /\ [][JobsNext]_vars

----------------------------------------------------------------------------
(* The decisions the engine executes: ended and tick on tracks that were   *)
(* entered by a play request, a NEXT or a seek                             *)

\* a click on a row or on its play button
TrackPlay(index) ==
    /\ AssignEngine(playItemAtIndex(Engine, index, now))
    /\ last' = [op |-> "play", index |-> index]
    /\ UNCHANGED <<snapshot, jobVars>>

\* the ended event; action is the decision handleEnded executes
TrackEnded ==
    /\ audio.playing
    /\ AssignEngine(handleEnded([Engine EXCEPT !.audio.playing = FALSE], now))
    /\ last' = [op |-> "ended", action |-> getNextPlaybackAction(Store, now)]
    /\ UNCHANGED <<snapshot, jobVars>>

\* the tick of main.js; action is the decision it executes, if it cuts a loop
TrackTick(position) ==
    /\ audio.src = Null => position = 0
    /\ AssignEngine(tick(Engine, position, now))
    /\ last' = [op |-> "tick",
                action |-> IF capCut(Store, position)
                           THEN getNextPlaybackAction(Store, now)
                           ELSE [action |-> "none"]]
    /\ UNCHANGED <<snapshot, jobVars>>

TrackNext ==
    \/ Advance(MaxTicks)
    \/ \E files \in DropFiles(PlainFiles, MaxItems) : AddFiles(files)
    \/ \E id \in 1..MaxItems, patch \in SeekPatches : UpdateItem(id, patch)
    \/ \E index \in 0..(Len(items) - 1) : TrackPlay(index)
    \/ \E listTimeSec \in {1} : SeekToAbsolute(listTimeSec)
    \/ SeekCanPlay
    \/ TrackEnded
    \/ \E position \in Positions : TrackTick(position)

SpecTrack == Init /\ [][TrackNext]_vars

\* the completions of the promises of main.js
Completions == {"decodeDone", "analysisDone"}

\* C25: the completion of a decode or of a realtime key/chord analysis that was
\* launched for index i, when currentIndex is another index or null, is discarded:
\* the realtime key, the decoded buffer of the current track and the items stay as
\* they are, and no analysis is started with its buffer.
C25_StaleResultDiscarded ==
    [][last'.op \in Completions /\ currentIndex # last'.job.index =>
          /\ UNCHANGED <<realTimeKey, currentPlayBuffer, items>>
          /\ analysisJobs' \subseteq analysisJobs]_vars

\* the decode for index 0 is fulfilled while the second track plays with its own
\* buffer and its own realtime key
C25_Witness ==
    /\ last.op = "decodeDone"
    /\ last.job.index = 0
    /\ currentIndex = 1
    /\ currentPlayBuffer = items[2].id
    /\ realTimeKey = items[2].id
    /\ last.job.buffer # currentPlayBuffer

\* the decisions handleEnded and the tick execute
Executed == {"ended", "tick"}

\* C28: executing LOOP, from the ended event or from the tick, sets startedAt to the
\* current time, clears isPaused, leaves currentIndex as it is and adds the duration
\* of the track (0 if it is not known) to the loop-elapsed counter.
C28_LoopRestampsStartedAt ==
    [][last'.op \in Executed /\ last'.action.action = "loop" =>
          /\ startedAt' = now'
          /\ ~isPaused'
          /\ currentIndex' = currentIndex
          /\ currentTrackLoopElapsed' =
                 currentTrackLoopElapsed + durationOrZero(items[currentIndex + 1])]_vars

\* C29: executing LOOP restarts the current track with the URL it has: currentPlayUrl
\* stays and is still unreleased, the element plays, and audio.js, which reassigns
\* audio.src exactly when the URL it holds is not the one it is given, holds that
\* URL before and after, however the track was entered.
C29_LoopKeepsSource ==
    [][last'.op \in Executed /\ last'.action.action = "loop" =>
          /\ currentPlayUrl' = currentPlayUrl
          /\ currentPlayUrl' \in objectUrls'
          /\ audio'.src = audio.src
          /\ audio'.playing
          /\ currentObjectUrl = currentPlayUrl
          /\ currentObjectUrl' = currentObjectUrl]_vars

\* C30: executing NEXT(i) leaves currentIndex = i, startedAt = now, currentTime = 0,
\* isPaused = false and a loop-elapsed counter of 0; the URL of the track before is
\* released and a new one, the only one unreleased, is the source of the element;
\* the decoded buffer of the track before is dropped.
C30_NextEntersTrack ==
    [][last'.op = "ended" /\ last'.action.action = "next" =>
          /\ currentIndex' = last'.action.index
          /\ startedAt' = now'
          /\ currentTime' = 0
          /\ ~isPaused'
          /\ currentTrackLoopElapsed' = 0
          /\ last'.currentPlayUrl # currentPlayUrl
          /\ last'.objectUrls = {last'.currentPlayUrl}
          /\ objectUrls' = {currentPlayUrl'}
          /\ audio'.src = currentPlayUrl'
          /\ currentPlayBuffer' = Null]_vars

\* the first track, decoded, has ended after the clock moved on, and the second
\* one has been entered
C30_Witness ==
    /\ last.op = "ended"
    /\ last.action = [action |-> "next", index |-> 1]
    /\ last.buffer = items[1].id
    /\ currentIndex = 1
    /\ now > 0
    /\ startedAt = now
    /\ currentPlayBuffer = Null
    /\ objectUrls = {currentPlayUrl}

----------------------------------------------------------------------------
(* The one-shot jobs of the list: the duration probe of list.js and the    *)
(* BPM job of audioAnalysis.js, which renderList starts at every           *)
(* list-changed notification.  p is the record of the store and of the     *)
(* in-flight sets and jobs.                                                *)

Probes ==
    [s |-> Store,
     loadingDurationIds |-> loadingDurationIds,
     durationJobs |-> durationJobs,
     failedDurationIds |-> failedDurationIds,
     analyzingBpmIds |-> analyzingBpmIds,
     bpmJobs |-> bpmJobs]

\* loadDuration with no test of the in-flight set
loadDuration_unguarded(p, item) ==
    IF item.duration # Null THEN p
    ELSE [p EXCEPT !.loadingDurationIds = @ \cup {item.id},
                   !.durationJobs = @ (+) SetToBag({item.id})]

\* list.js loadDuration: the probe is an Audio element loading the file
loadDuration(p, item) ==
    IF item.duration # Null \/ item.id \in p.loadingDurationIds THEN p
    ELSE [p EXCEPT !.loadingDurationIds = @ \cup {item.id},
                   !.durationJobs = @ (+) SetToBag({item.id})]

\* item.bpm != null: an item without the field has bpm undefined
bpmIsSet(item) == "bpm" \in DOMAIN item /\ item.bpm # Null

\* audioAnalysis.js loadBpm
loadBpm(p, item) ==
    IF bpmIsSet(item) \/ item.id \in p.analyzingBpmIds THEN p
    ELSE [p EXCEPT !.analyzingBpmIds = @ \cup {item.id},
                   !.bpmJobs = @ (+) SetToBag({item.id})]

\* list.js renderList, rows k and after: if (item.duration === null)
\* loadDuration(item); if (item.bpm === null) loadBpm(item)
RECURSIVE renderRows(_, _)
renderRows(p, k) ==
    IF k > Len(p.s.items) THEN p
    ELSE
      LET item == p.s.items[k]
          p1 == IF item.duration = Null THEN loadDuration(p, item) ELSE p
          p2 == IF "bpm" \in DOMAIN item /\ item.bpm = Null THEN loadBpm(p1, item)
                ELSE p1
      IN  renderRows(p2, k + 1)

renderList(p) == renderRows(p, 1)

\* the subscriber of list.js: a call of the store that notified is followed by
\* renderList
rendered(p) == IF p.s.nUpdate > 0 THEN renderList(p) ELSE p

\* Number.isFinite(d)
isFinite(d) == d # NaN /\ d # Null

\* the loadedmetadata listener of the probe of item id; d is audio.duration
durationLoaded(p, id, d) ==
    LET p1 == IF isFinite(d)
              THEN rendered([p EXCEPT !.s = updateItem(@, id, [duration |-> d])])
              ELSE p
    IN  [p1 EXCEPT !.loadingDurationIds = @ \ {id},
                   !.durationJobs = @ (-) SetToBag({id})]

\* the error listener of the probe of item id
durationFailed(p, id) ==
    [p EXCEPT !.loadingDurationIds = @ \ {id},
              !.durationJobs = @ (-) SetToBag({id}),
              !.failedDurationIds = @ \cup {id}]

\* the chain of loadBpm is fulfilled with bpm
bpmDone(p, id, bpm) ==
    LET p1 == IF isFinite(bpm) /\ bpm >= 1
              THEN rendered([p EXCEPT !.s = updateItem(@, id, [bpm |-> bpm])])
              ELSE p
    IN  [p1 EXCEPT !.analyzingBpmIds = @ \ {id},
                   !.bpmJobs = @ (-) SetToBag({id})]

\* the chain of loadBpm is rejected: catch(() => {}), then finally
bpmFailed(p, id) ==
    [p EXCEPT !.analyzingBpmIds = @ \ {id},
              !.bpmJobs = @ (-) SetToBag({id})]

\* the record p a handler leaves becomes the next state
CommitProbes(p, rec) ==
    /\ Assign(p.s)
    /\ loadingDurationIds' = p.loadingDurationIds
    /\ durationJobs' = p.durationJobs
    /\ failedDurationIds' = p.failedDurationIds
    /\ analyzingBpmIds' = p.analyzingBpmIds
    /\ bpmJobs' = p.bpmJobs
    /\ last' = rec
    /\ UNCHANGED <<engineVars, snapshot, analysisVars, elementVars>>

\* a drop of files on the list
ProbesDrop(files) ==
    CommitProbes(rendered([Probes EXCEPT !.s = addFiles(@, files)]),
                 [op |-> "addFiles", files |-> files])

\* the loop button of row k
ProbesLoopClick(k) ==
    CommitProbes(rendered([Probes EXCEPT
                              !.s = updateItem(@, items[k].id, [loop |-> ~items[k].loop])]),
                 [op |-> "loopClick", id |-> items[k].id])

\* a call of loadBpm for row k
LoadBpm(k) ==
    CommitProbes(loadBpm(Probes, items[k]), [op |-> "loadBpm", id |-> items[k].id])

DurationLoadedEvent(id, d) ==
    CommitProbes(durationLoaded(Probes, id, d),
                 [op |-> "durationLoaded", id |-> id, d |-> d])

DurationFailedEvent(id) ==
    CommitProbes(durationFailed(Probes, id), [op |-> "durationFailed", id |-> id])

BpmDone(id, bpm) ==
    CommitProbes(bpmDone(Probes, id, bpm), [op |-> "bpmDone", id |-> id, bpm |-> bpm])

BpmFailed(id) ==
    CommitProbes(bpmFailed(Probes, id), [op |-> "bpmFailed", id |-> id])

\* what the metadata of a file gives as its duration
ProbedDurations == Durations \cup {NaN}

\* what the beat detector gives as the tempo
Tempos == {120, NaN}

ProbesNext ==
    \/ \E files \in DropFiles(PlainFiles, MaxItems) : ProbesDrop(files)
    \/ \E k \in 1..Len(items) : ProbesLoopClick(k)
    \/ \E k \in 1..Len(items) : LoadBpm(k)
    \/ \E id \in BagToSet(durationJobs), d \in ProbedDurations : DurationLoadedEvent(id, d)
    \/ \E id \in BagToSet(durationJobs) : DurationFailedEvent(id)
    \/ \E id \in BagToSet(bpmJobs), bpm \in Tempos : BpmDone(id, bpm)
    \/ \E id \in BagToSet(bpmJobs) : BpmFailed(id)

SpecProbes == Init /\ [][ProbesNext]_vars

\* the jobs of item id in flight
DurationJobsOf(id) == IF id \in BagToSet(durationJobs) THEN CopiesIn(id, durationJobs) ELSE 0

BpmJobsOf(id) == IF id \in BagToSet(bpmJobs) THEN CopiesIn(id, bpmJobs) ELSE 0

\* the item of an id
ItemOf(id) == items[CHOOSE k \in 1..Len(items) : items[k].id = id]

\* C26: at most one duration probe and at most one BPM job per item id is in
\* flight at any time; a step issues no job for an id that is in the in-flight
\* set of the kind or whose field is set; an id is in the in-flight set exactly
\* while its job is in flight, so it leaves the set exactly when the job completes
\* or fails.
C26_OneJobPerItemAndKind ==
    [][\A id \in Ids(items') :
          /\ DurationJobsOf(id)' <= 1
          /\ BpmJobsOf(id)' <= 1
          /\ id \in loadingDurationIds' <=> DurationJobsOf(id)' = 1
          /\ id \in analyzingBpmIds' <=> BpmJobsOf(id)' = 1
          /\ id \in Ids(items) /\ (id \in loadingDurationIds \/ ItemOf(id).duration # Null)
                => DurationJobsOf(id)' <= DurationJobsOf(id)
          /\ id \in Ids(items) /\ (id \in analyzingBpmIds \/ bpmIsSet(ItemOf(id)))
                => BpmJobsOf(id)' <= BpmJobsOf(id)
          /\ id \in loadingDurationIds \ loadingDurationIds'
                => last'.op \in {"durationLoaded", "durationFailed"} /\ last'.id = id
          /\ id \in analyzingBpmIds \ analyzingBpmIds'
                => last'.op \in {"bpmDone", "bpmFailed"} /\ last'.id = id]_vars

\* a re-render (a click on a loop button) while the probes of both items and a BPM
\* job are in flight: one job each
C26_Witness ==
    /\ last.op = "loopClick"
    /\ Len(items) = 2
    /\ loadingDurationIds = Ids(items)
    /\ DurationJobsOf(1) = 1 /\ DurationJobsOf(2) = 1
    /\ analyzingBpmIds # {}

\* C27: once a duration probe of an item has failed, the duration of the item stays
\* null and no step issues a probe for the item again.
C27_NoProbeAfterFailure ==
    [][\A id \in failedDurationIds :
          /\ ItemOf(id)'.duration = Null
          /\ DurationJobsOf(id)' <= DurationJobsOf(id)]_vars

----------------------------------------------------------------------------
(* STOP, pause and the pending callbacks of the engine                     *)

\* the STOP a handler has executed: a stop request, or the decision of handleEnded
StopExecuted(rec) ==
    \/ rec.op = "stop"
    \/ rec.op = "ended" /\ rec.action.action = "stop"

\* the engine as a STOP leaves it
Stopped ==
    /\ currentIndex = Null
    /\ startedAt = Null
    /\ isPaused
    /\ currentPlayUrl = Null
    /\ objectUrls = {}
    /\ currentPlayBuffer = Null
    /\ ~realtimeKeyTimerId

\* C31: a STOP, executed for a decision or for a stop request, leaves currentIndex
\* and startedAt null, no source handle held, no decoded buffer and no realtime
\* analysis timer; a STOP executed on the engine as a STOP left it changes nothing.
C31_StopClearsEngine ==
    [][StopExecuted(last') =>
          /\ currentIndex' = Null
          /\ startedAt' = Null
          /\ currentPlayUrl' = Null
          /\ objectUrls' = {}
          /\ currentPlayBuffer' = Null
          /\ ~realtimeKeyTimerId'
          /\ (Stopped => UNCHANGED <<items, currentIndex, startedAt, currentTime,
                                     isPaused, engineVars, analysisVars>>)]_vars

\* the last track, decoded and with its timer running, has ended and the decision
\* was STOP
C31_Witness ==
    /\ last.op = "ended"
    /\ last.action.action = "stop"
    /\ last.buffer # Null
    /\ Len(items) > 0
    /\ Stopped

\* list.js: the pause button of the current row; the analysis side has no part in it
JobsPause ==
    CommitJobs(pausePlayback(Engine), Analysis, [op |-> "pause"])

\* main.js: the play/pause button
JobsPlayPause ==
    CommitJobs(togglePlayPause(Engine, now),
               IF Len(items) > 0 /\ currentIndex = Null
               THEN playItemAtIndexJobs(Analysis, Store, 0)
               ELSE Analysis,
               [op |-> "playPause"])

PauseNext ==
    \/ \E files \in DropFiles(PlainFiles, MaxItems) : AddFiles(files)
    \/ \E index \in 0..(Len(items) - 1) : JobsPlay(index)
    \/ JobsPause
    \/ JobsPlayPause
    \/ JobsStop
    \/ \E job \in decodeJobs, position \in Positions : DecodeDone(job, position)
    \/ \E job \in analysisJobs : AnalysisDone(job)
    \/ \E position \in Positions : RealtimeKeyTimer(position)

SpecPause == Init /\ [][PauseNext]_vars

\* C32: no realtime key/chord analysis is issued by a handler that runs while
\* playback is paused or the cursor is null, whatever the order of play, pause,
\* stop, the realtime timer and the completions of the decodes.
C32_NoAnalysisWhilePaused ==
    [][isPaused \/ currentIndex = Null => analysisJobs' \subseteq analysisJobs]_vars

\* C33: whenever currentIndex is null the realtime analysis timer is not set (the one
\* id main.js keeps is the only timer there is) and the element has not been started
\* since the stop, whatever the order of stop requests, track changes, seeks on the
\* list time line and the canplay callbacks the seeks have registered.
C33_NoTimerWithoutCursor ==
    currentIndex = Null => ~realtimeKeyTimerId /\ ~audio.playing

\* C36: whenever no track is selected (currentIndex is null) the stored currentTime
\* is 0, in every state play, the seeks in a track and on the list time line, stop
\* requests, ticks and the pending callbacks of the element lead to.
C36_NoCursorTimeZero ==
    currentIndex = Null => currentTime = 0

----------------------------------------------------------------------------
(* The decoded buffer while the list is reordered                          *)

BufferNext ==
    \/ \E files \in DropFiles(NamedFiles, MaxItems) : AddFiles(files)
    \/ \E index \in 0..(Len(items) - 1) : JobsPlay(index)
    \/ \E fromIndex \in 0..(Len(items) - 1), toIndex \in 0..(Len(items) - 1) :
           MoveItem(fromIndex, toIndex)
    \/ \E parsed \in SeqsUpTo(Rows, 1) : LoadListData(parsed)
    \/ \E job \in decodeJobs, position \in Positions : DecodeDone(job, position)
    \/ \E job \in analysisJobs : AnalysisDone(job)

SpecBuffer == Init /\ [][BufferNext]_vars

\* C35: a decoded buffer held as the current play buffer was decoded from the file
\* of the item at currentIndex, whatever the order of play requests, moveItem,
\* the reordering of loadListData and the completions of the decodes.
C35_BufferOfCurrentItem ==
    currentPlayBuffer # Null =>
        /\ InRange(currentIndex)
        /\ items[currentIndex + 1].id = currentPlayBuffer

----------------------------------------------------------------------------
(* Timed playback: the clock moves the position of the playing element,    *)
(* the element queues its ended event at the end of the media, and the     *)
(* event, the tick of main.js and the clock interleave.  No handler of the *)
(* user runs after the play request the specification starts from.  The    *)
(* tick reads the position in whole seconds, as the caps and the lengths   *)
(* of the files are.                                                       *)

\* most seconds the clock runs on for one item of the list
MaxElapsed == 5

\* most items of a list that is played against the clock
MaxTimedItems == 2

\* the length of the media of a file (seconds)
fileSeconds == CHOOSE d \in Durations : TRUE

\* main.js, state.js and audio.js when the page has loaded
InitEngine ==
    [s |-> [items |-> <<>>, currentIndex |-> Null, startedAt |-> Null,
            currentTime |-> 0, isPaused |-> FALSE, idCount |-> 0,
            nUpdate |-> 0, nTimeUpdate |-> 0],
     currentPlayUrl |-> Null,
     realtimeKeyTimerId |-> FALSE,
     currentTrackLoopElapsed |-> 0,
     currentObjectUrl |-> Null,
     audio |-> [src |-> Null, playing |-> FALSE],
     objectUrls |-> {},
     canplayListeners |-> <<>>]

\* the settings of a row: no loop, a loop without a cap, a cap below and a cap
\* above the length of the file; the duration is there once the probe has answered
TimedSettings ==
    {[loop |-> l, maxLoopSeconds |-> m, duration |-> d] :
        l \in {TRUE}, m \in {Null, 1, 3}, d \in {Null, fileSeconds}}
    \cup {[loop |-> FALSE, maxLoopSeconds |-> Null, duration |-> d] :
             d \in {Null, fileSeconds}}

\* updateItem for each of the first k rows
RECURSIVE applySettings(_, _, _)
applySettings(s, settings, k) ==
    IF k = 0 THEN s
    ELSE updateItem(applySettings(s, settings, k - 1), s.items[k].id, settings[k])

\* the engine after a drop of n files, the edits of the rows and a play request
Started(n, settings, index) ==
    LET files == [k \in 1..n |-> [name |-> "a", type |-> AudioType]]
        s == applySettings(addFiles(InitEngine.s, files), settings, n)
    IN  canonicalUrls(playItemAtIndex(
            [InitEngine EXCEPT !.s = [s EXCEPT !.nUpdate = 0]], index, 0))

TimedInit ==
    \E n \in 1..MaxTimedItems : \E settings \in [1..n -> TimedSettings] :
      \E index \in 0..(n - 1) : \E e \in {Started(n, settings, index)} :
        /\ items = e.s.items
        /\ currentIndex = e.s.currentIndex
        /\ startedAt = e.s.startedAt
        /\ currentTime = e.s.currentTime
        /\ isPaused = e.s.isPaused
        /\ idCount = e.s.idCount
        /\ nUpdate = e.s.nUpdate
        /\ nTimeUpdate = e.s.nTimeUpdate
        /\ now = 0
        /\ last = [op |-> "play", index |-> index]
        /\ currentPlayUrl = e.currentPlayUrl
        /\ realtimeKeyTimerId = e.realtimeKeyTimerId
        /\ currentTrackLoopElapsed = e.currentTrackLoopElapsed
        /\ currentObjectUrl = e.currentObjectUrl
        /\ audio = e.audio
        /\ objectUrls = e.objectUrls
        /\ canplayListeners = e.canplayListeners
        /\ snapshot = <<>>
        /\ currentPlayBuffer = Null
        /\ decodeJobs = {}
        /\ analysisJobs = {}
        /\ realTimeKey = Null
        /\ canplayDecodes = <<>>
        /\ loadingDurationIds = {}
        /\ durationJobs = EmptyBag
        /\ failedDurationIds = {}
        /\ analyzingBpmIds = {}
        /\ bpmJobs = EmptyBag
        /\ audioCurrentTime = 0
        /\ endedPending = "none"

\* the element is at the end of its media and has not queued ended yet
atEndOfMedia == audio.playing /\ audioCurrentTime = fileSeconds * MsPerSecond

\* time passes while a track is selected; the position of a playing element moves
\* with it up to the end of the media.  The event loop delivers an ended event
\* within milliseconds, so no step of the clock comes before it.
TimedClock ==
    /\ currentIndex # Null
    /\ ~atEndOfMedia
    /\ endedPending = "none"
    /\ now - startedAt < MaxElapsed * MsPerSecond
    /\ now < Len(items) * MaxElapsed * MsPerSecond
    /\ now' = now + TickMs
    /\ audioCurrentTime' = IF audio.playing
                           THEN Min(audioCurrentTime + TickMs, fileSeconds * MsPerSecond)
                           ELSE audioCurrentTime
    /\ last' = [op |-> "advance"]
    /\ nUpdate' = 0
    /\ nTimeUpdate' = 0
    /\ UNCHANGED <<items, currentIndex, startedAt, currentTime, isPaused, idCount>>
    /\ UNCHANGED <<engineVars, snapshot, analysisVars, probeVars, endedPending>>

\* the playing element reaches the end of its media: it stops and queues ended
MediaEnded ==
    /\ atEndOfMedia
    /\ endedPending = "none"
    /\ audio' = [audio EXCEPT !.playing = FALSE]
    /\ endedPending' = "raised"
    /\ last' = [op |-> "mediaEnded"]
    /\ UNCHANGED <<storeVars, now, snapshot, analysisVars, probeVars, audioCurrentTime>>
    /\ UNCHANGED <<currentPlayUrl, realtimeKeyTimerId, currentTrackLoopElapsed,
                   currentObjectUrl, objectUrls, canplayListeners>>

\* audio.js play() sets audio.currentTime = 0: LOOP and NEXT restart the element
positionAfter(action) ==
    IF action.action \in {"loop", "next"} THEN 0 ELSE audioCurrentTime

\* the queued ended event runs the listener of audio.js, which calls handleEnded;
\* stale: the tick has executed a decision since the event was queued
EndedDelivered ==
    /\ endedPending # "none"
    /\ AssignEngine(handleEnded(Engine, now))
    /\ endedPending' = "none"
    /\ audioCurrentTime' = positionAfter(getNextPlaybackAction(Store, now))
    /\ last' = [op |-> "ended", action |-> getNextPlaybackAction(Store, now),
                index |-> currentIndex, stale |-> endedPending = "cut"]
    /\ UNCHANGED <<snapshot, analysisVars, probeVars>>

\* the ended event in the queue after a handler that took the engine from e0 to
\* e1: an assignment of audio.src starts the load of the element, which removes
\* the events it has queued; a cut of the tick overtakes an event that stays
endedAfter(e0, e1, cut) ==
    IF e1.audio.src # e0.audio.src THEN "none"
    ELSE IF cut /\ endedPending = "raised" THEN "cut"
    ELSE endedPending

\* the tick of main.js at the position the element is at
TimedTick ==
    \E seconds \in {audioCurrentTime \div MsPerSecond} :
    \E e1 \in {tick(Engine, seconds, now)} :
    \E action \in {IF capCut(Store, seconds) THEN getNextPlaybackAction(Store, now)
                   ELSE [action |-> "none"]} :
        /\ AssignEngine(e1)
        /\ endedPending' = endedAfter(Engine, e1, capCut(Store, seconds))
        /\ audioCurrentTime' = positionAfter(action)
        /\ last' = [op |-> "tick", action |-> action, index |-> currentIndex]
        /\ UNCHANGED <<snapshot, analysisVars, probeVars>>

TimedNext ==
    \/ TimedClock
    \/ MediaEnded
    \/ EndedDelivered
    \/ TimedTick

SpecTimed == TimedInit /\ [][TimedNext]_vars

\* the browser keeps running: the clock, the element, the event loop and the
\* interval of the tick do not all stop while one of them has a step to take
SpecTimedFair == SpecTimed /\ WF_vars(TimedNext)

\* the current item loops with a cap above the length of its file
CapAboveLength ==
    /\ currentIndex # Null
    /\ isBoundedLoop(items[currentIndex + 1])
    /\ items[currentIndex + 1].maxLoopSeconds > fileSeconds

\* C34: while the current item loops with a positive maxLoopSeconds above the real
\* duration of its track, the tick never cuts the loop and, with no user action,
\* no end of the track moves the cursor off the item: it is an unbounded loop.
C34_CapAboveDurationLoopsForever ==
    [][CapAboveLength =>
          /\ last'.op = "tick" => last'.action.action = "none"
          /\ currentIndex' = currentIndex]_vars

\* no item of the list loops
NoLoops == \A k \in 1..Len(items) : ~items[k].loop

\* C38: if no item has loop = true, playback was started at some index, is never
\* paused, every started track raises ended and the user does nothing, the cursor
\* moves by one index at a time, from the last index to null only, and is null
\* (STOP) in the end.
C38_NoLoopPlaysThrough ==
    /\ [][NoLoops /\ currentIndex' # currentIndex =>
             /\ currentIndex # Null
             /\ \/ currentIndex' = currentIndex + 1
                \/ currentIndex' = Null /\ currentIndex = Len(items) - 1]_vars
    /\ (NoLoops => <>(currentIndex = Null))

\* a list of two tracks without loops was played from its first track to its end
C38_Witness ==
    /\ NoLoops
    /\ Len(items) = MaxTimedItems
    /\ last.op = "ended"
    /\ last.action.action = "stop"
    /\ last.index = Len(items) - 1
    /\ currentIndex = Null
    /\ now = Len(items) * fileSeconds * MsPerSecond

\* the cursor is on item i, which loops with a cap
OnBoundedLoop(i) ==
    /\ currentIndex = i
    /\ i < Len(items)
    /\ isBoundedLoop(items[i + 1])

----------------------------------------------------------------------------
(* The end of a track seen by the tick and by the ended event                *)

\* list.js: a click on the position bar of the playing row; seekPlayback moves
\* the element there, and the end of the bar is the end of the media
TimedSeek(seconds) ==
    /\ InRange(currentIndex)
    /\ items[currentIndex + 1].duration # Null
    /\ seconds <= items[currentIndex + 1].duration
    /\ audio.playing
    /\ endedPending = "none"
    /\ AssignEngine(seekPlayback(Engine, seconds))
    /\ audioCurrentTime' = Max(0, seconds) * MsPerSecond
    /\ last' = [op |-> "seek"]
    /\ UNCHANGED <<snapshot, analysisVars, probeVars, endedPending>>

SignalNext ==
    \/ TimedNext
    \/ \E seconds \in 0..fileSeconds : TimedSeek(seconds)

SpecSignal == TimedInit /\ [][SignalNext]_vars

\* the fields of the engine a decision of the playback writes
Transition(e) ==
    <<e.s.currentIndex, e.s.startedAt, e.s.isPaused, e.currentTrackLoopElapsed,
      e.currentPlayUrl, e.audio>>

\* C37: one end of a play segment causes at most one transition: when the tick
\* has executed the decision of a cut for the current bounded-loop track, the
\* ended event the same play segment has queued executes no second transition
\* when it is delivered.
C37_OneTransitionPerEnd ==
    endedPending = "cut" => Transition(handleEnded(Engine, now)) = Transition(Engine)

====
